---- MODULE Spec2Model ----
(***************************************************************************)
(* Ingestion and feature-aggregation pipeline of playgen.                  *)
(*                                                                         *)
(*  - the streaming feature aggregator (generateUserSongFeatures.js,       *)
(*    streaming version: fetchEvents, hydrateSongDurations,                *)
(*    aggregateUserSongFeatures, upsertUserSongFeatures, main);            *)
(*  - the Map-based aggregation script (backend/scripts/                   *)
(*    generateUserSongFeatures.js: fetchAllEvents, aggregateEvents);       *)
(*  - the Jamendo ingestion worker (withRetry, mapTrackToSongRow, chunk,   *)
(*    main) with upsertSongs and fetchJamendoTracks as its collaborators.  *)
(*                                                                         *)
(* JavaScript strings are sequences of one-character strings, so that      *)
(* trim(), toLowerCase() and the `${userId}:${songId}` key are computed as *)
(* the code computes them.  Numbers are integers (event durations are      *)
(* stored floored to whole seconds); a quotient is kept as the pair        *)
(* <<numerator, denominator>>.  Instants are milliseconds.                 *)
(***************************************************************************)
EXTENDS Integers, Sequences, FiniteSets, TLC

VARIABLES
    \* ---- persistent store, as the aggregation scripts see it
    events,               \* the `events` table, in the order the store returns it
    songs,                \* the `songs` table: song id -> raw duration column
    features,             \* the `user_song_features` table: <<user, song>> -> row
    now,                  \* the wall clock (ms)
    \* ---- options of one aggregation run
    limit,                \* argv.limit (NoLimit when absent)
    pageSize,             \* fetchEvents pageSize
    batchSize,            \* aggregateUserSongFeatures batchSize
    \* ---- fetchEvents
    offset, fetched, take, page, pageIdx,
    \* ---- main / aggregateUserSongFeatures
    songDurationCache, current, currentKey, buffer,
    processedEvents, aggregatedRecords, totalUpsertsAttempted,
    aggPc,                \* where the aggregation run stands
    \* ---- observations
    batches,              \* the row lists handed to onBatch in this run, in order
    run,                  \* 1: first run over the log, 2: the run repeated
    firstBatches,         \* what the first run handed to onBatch
    firstFeatures,        \* the feature table the first run started from
    yielded,              \* the events the reader has yielded in this run, in order
    lookups,              \* the id lists of the duration lookups of this run, in order
    mapFeatures,          \* the rows aggregateEvents returned (Map-based script)
    \* ---- the ingestion worker's surroundings
    catalog,              \* the remote catalogue: per partition, the tracks it serves
    endless,              \* the catalogue serves its tracks over and over, at every offset
    songTable,            \* the `songs` table by its conflict key: jamendo_id -> row
    clientIdSet,          \* JAMENDO_CLIENT_ID is set
    storeCredsSet,        \* SUPABASE_URL and SUPABASE_SERVICE_ROLE_KEY are set
    faulty,               \* the catalogue API and the store can fail during this run
    ingRun,               \* how many ingestion runs have been started
    tableBefore,          \* the `songs` table as the current run found it
    \* ---- options of one ingestion run (after main has clamped them)
    genreArgs,            \* <<--genres of argv, JAMENDO_GENRES>>, null when not given
    genres, ingLimit, startOffset, ingBatchSize, target,
    \* ---- main of the ingestion worker
    genreIdx,             \* the position of `genre` in genres
    ingOffset, emptyPagesInARow, totalUpserted, seenJamendoIds,
    attempt,              \* withRetry's attempt
    tracks,               \* the page withRetry(...).catch(...) returned
    pending,              \* the batches of chunk(mapped, batchSize) not yet reached
    uuids,                \* how many ids randomUUID has handed out
    exitCode,
    ingPc,                \* where the ingestion run stands
    \* ---- observations
    attemptLog,           \* the outcomes of the attempts at the current page
    waits,                \* the delays slept between the attempts at the current page (ms)
    pageLog,              \* the pages the run has asked for, in order
    submitted,            \* the batches handed to upsertSongs, in order
    seenBefore,           \* seenJamendoIds as it was before the current page
    pageSubmitted         \* the rows of the current page handed to upsertSongs

aggVars == <<events, songs, features, now, limit, pageSize, batchSize,
             offset, fetched, take, page, pageIdx,
             songDurationCache, current, currentKey, buffer,
             processedEvents, aggregatedRecords, totalUpsertsAttempted, aggPc,
             batches, run, firstBatches, firstFeatures, yielded, lookups,
             mapFeatures>>

ingEnv == <<catalog, endless, clientIdSet, storeCredsSet, faulty, ingRun, tableBefore, genreArgs, genres,
            ingLimit, startOffset, ingBatchSize, target>>

ingVars == <<ingEnv, songTable, genreIdx, ingOffset, emptyPagesInARow, totalUpserted,
             seenJamendoIds, attempt, tracks, pending, uuids, exitCode, ingPc,
             attemptLog, waits, pageLog, submitted, seenBefore, pageSubmitted>>

vars == <<aggVars, ingVars>>

-----------------------------------------------------------------------------
(* Bounds of the model *)

MaxEvents == 3        \* longest event log
MaxPageSize == 2      \* largest fetchEvents page size
MaxBatchSize == 2     \* largest aggregation batch size
MaxClock == 1         \* the clock runs from 0 to MaxClock

-----------------------------------------------------------------------------
(* JavaScript values *)

JsNull == [isNull |-> TRUE, chars |-> <<>>]           \* null / undefined
JsStr(s) == [isNull |-> FALSE, chars |-> s]           \* a string
NumNull == [kind |-> "null", v |-> 0]                 \* null / undefined
NumNaN == [kind |-> "nan", v |-> 0]                   \* a value Number() maps to NaN
Num(n) == [kind |-> "num", v |-> n]                   \* a finite number
TsNull == [kind |-> "null", ms |-> 0]
TsDate(ms) == [kind |-> "date", ms |-> ms]

NoId == <<>>          \* normalizeId's null (it never returns an empty string)
NoKey == <<>>         \* currentKey = null
NoMs == -1            \* last_played_ms = null, parseTimestampMs's null
NoLimit == -1         \* argv.limit undefined

Min(a, b) == IF a <= b THEN a ELSE b
Max(a, b) == IF a >= b THEN a ELSE b

RECURSIVE TrimStart(_)
TrimStart(s) == IF s # <<>> /\ Head(s) = " " THEN TrimStart(Tail(s)) ELSE s

RECURSIVE TrimEnd(_)
TrimEnd(s) ==
    IF s # <<>> /\ s[Len(s)] = " " THEN TrimEnd(SubSeq(s, 1, Len(s) - 1)) ELSE s

Trim(s) == TrimEnd(TrimStart(s))

UpperCase == <<"A", "B", "C", "D", "E", "F", "G", "H", "I", "J", "K", "L", "M",
               "N", "O", "P", "Q", "R", "S", "T", "U", "V", "W", "X", "Y", "Z">>
LowerCase == <<"a", "b", "c", "d", "e", "f", "g", "h", "i", "j", "k", "l", "m",
               "n", "o", "p", "q", "r", "s", "t", "u", "v", "w", "x", "y", "z">>

ToLowerChar(c) ==
    IF \E i \in 1..26 : UpperCase[i] = c
    THEN LowerCase[CHOOSE i \in 1..26 : UpperCase[i] = c]
    ELSE c

ToLowerCase(s) == [i \in 1..Len(s) |-> ToLowerChar(s[i])]

\* normalizeId: null for null/undefined and for a string that trims to "".
normalizeId(value) == IF value.isNull THEN NoId ELSE Trim(value.chars)

\* toNonNegativeNumber: 0 for null, non-finite and negative values.
toNonNegativeNumber(value) ==
    IF value.kind = "null" THEN 0
    ELSE IF value.kind = "nan" \/ value.v < 0 THEN 0
    ELSE value.v

\* normalizeDurationSeconds, with NoMs standing for its null.
normalizeDurationSeconds(value) ==
    IF value.kind = "null" THEN NoMs
    ELSE IF value.kind = "nan" THEN NoMs
    ELSE IF value.v < 0 THEN NoMs
    ELSE value.v

\* parseTimestampMs: null for null/undefined/"" and for an invalid date.
parseTimestampMs(value) == IF value.kind = "date" THEN value.ms ELSE NoMs

\* The normalised event type: trim().toLowerCase() of a string, "" otherwise.
EventType(evt) ==
    IF evt.event_type.isNull THEN <<>> ELSE ToLowerCase(Trim(evt.event_type.chars))

PLAY == <<"p", "l", "a", "y">>
SKIP == <<"s", "k", "i", "p">>
COMPLETE == <<"c", "o", "m", "p", "l", "e", "t", "e">>

\* a rounding that truncates instead of rounding to nearest
MathTruncate(n, d) == n \div d

\* Math.round(n / d) for n >= 0, d > 0: floor(n/d + 1/2).
MathRound(n, d) == (2 * n + d) \div (2 * d)

\* clamp01 of the quotient n / d (d > 0), as a quotient.
clamp01(n, d) ==
    IF n < 0 THEN <<0, 1>>
    ELSE IF n > d THEN <<1, 1>>
    ELSE <<n, d>>

\* a key that leaves the song out
KeyOfUserOnly(userId, songId) == userId \o <<":">>

\* `${userId}:${songId}`
KeyOf(userId, songId) == userId \o <<":">> \o songId

\* chunk(array, size)
RECURSIVE chunk(_, _)
chunk(array, size) ==
    IF array = <<>> THEN <<>>
    ELSE LET safeSize == Max(1, size)
             n == Min(safeSize, Len(array))
         IN <<SubSeq(array, 1, n)>> \o chunk(SubSeq(array, n + 1, Len(array)), size)

RECURSIVE Flatten(_)
Flatten(ss) == IF ss = <<>> THEN <<>> ELSE Head(ss) \o Flatten(Tail(ss))

-----------------------------------------------------------------------------
(* The store's ORDER BY user_id, song_id, timestamp (ascending, nulls last) *)

Alphabet == <<" ", ":", "a", "b", "c", "d">>        \* in code-point order
CharRank(c) == CHOOSE i \in 1..Len(Alphabet) : Alphabet[i] = c

RECURSIVE LexCmp(_, _)
LexCmp(s, t) ==
    IF s = <<>> /\ t = <<>> THEN 0
    ELSE IF s = <<>> THEN -1
    ELSE IF t = <<>> THEN 1
    ELSE IF CharRank(Head(s)) < CharRank(Head(t)) THEN -1
    ELSE IF CharRank(Head(s)) > CharRank(Head(t)) THEN 1
    ELSE LexCmp(Tail(s), Tail(t))

TextCmp(a, b) ==
    IF a.isNull /\ b.isNull THEN 0
    ELSE IF a.isNull THEN 1
    ELSE IF b.isNull THEN -1
    ELSE LexCmp(a.chars, b.chars)

TsCmp(a, b) ==
    IF a.kind = "null" /\ b.kind = "null" THEN 0
    ELSE IF a.kind = "null" THEN 1
    ELSE IF b.kind = "null" THEN -1
    ELSE IF a.ms < b.ms THEN -1 ELSE IF a.ms > b.ms THEN 1 ELSE 0

EventLeq(e1, e2) ==
    LET u == TextCmp(e1.user_id, e2.user_id)
        s == TextCmp(e1.song_id, e2.song_id)
    IN \/ u < 0
       \/ u = 0 /\ s < 0
       \/ u = 0 /\ s = 0 /\ TsCmp(e1.ts, e2.ts) <= 0

OrderedLogs(shapes) ==
    UNION {{s \in [1..n -> shapes] : \A i \in 1..(n - 1) : EventLeq(s[i], s[i + 1])}
           : n \in 0..MaxEvents}

-----------------------------------------------------------------------------
(* The inputs the model draws from *)

Evt(u, s, t, d, ts) ==
    [user_id |-> u, song_id |-> s, event_type |-> t, play_duration |-> d, ts |-> ts]

\* User ids are UUIDs (the event route rejects any other user_id), so they hold
\* no ":"; a song id is any non-empty trimmed string.
UserA == <<"a">>
UserB == <<"b">>
SongC == <<"c">>
SongBC == <<"b", ":", "c">>

TypePlay == JsStr(<<"p", "l", "a", "y">>)
TypeSkip == JsStr(<<" ", "S", "k", "i", "p", " ">>)
TypeComplete == JsStr(<<"c", "o", "m", "p", "l", "e", "t", "e">>)
TypePause == JsStr(<<"p", "a", "u", "s", "e">>)

\* events that differ in their ids
IdShapes ==
    {Evt(u, s, TypePlay, Num(30), TsDate(1))
        : u \in {JsStr(UserA), JsStr(UserB)}, s \in {JsStr(SongC), JsStr(SongBC)}}
    \cup {Evt(JsNull, JsStr(SongC), TypePlay, Num(30), TsDate(1)),
          Evt(JsStr(UserA), JsStr(<<" ">>), TypePlay, Num(30), TsDate(1))}

\* events of one pair that differ in kind and duration
KindShapes ==
    {Evt(JsStr(UserA), JsStr(SongC), t, Num(30), TsDate(1))
        : t \in {TypePlay, TypeSkip, TypeComplete, TypePause}}
    \cup {Evt(JsStr(UserA), JsStr(SongC), TypePlay, d, TsDate(1))
        : d \in {NumNull, Num(-5), Num(40)}}
    \cup {Evt(JsStr(UserA), JsStr(SongC), JsNull, NumNaN, TsDate(1))}

\* events of one pair that differ in their timestamp
TsShapes ==
    {Evt(JsStr(UserA), JsStr(SongC), TypePlay, Num(30), ts)
        : ts \in {TsNull, TsDate(1), TsDate(2)}}

NoSongs == [id \in {} |-> NumNull]
SongsWith(id, d) == [x \in {id} |-> d]
SongTables ==
    {NoSongs, SongsWith(SongC, Num(0)), SongsWith(SongC, Num(50)),
     SongsWith(SongC, Num(100)), SongsWith(SongC, Num(-7))}

NoFeatures == [k \in {} |-> 0]

\* a row left in the feature table by an earlier run over another log
StaleRow ==
    [user_id |-> UserA, song_id |-> SongC, play_count |-> 7, skip_count |-> 7,
     complete_count |-> 7, total_play_duration |-> 700, avg_play_duration |-> 100,
     completion_rate |-> <<1, 1>>, last_played_at |-> 0, updated_at |-> 0]
StaleFeatures == [k \in {<<UserA, SongC>>} |-> StaleRow]

-----------------------------------------------------------------------------
(* Streaming aggregator *)

NoCurrent ==
    [open |-> FALSE, user_id |-> NoId, song_id |-> NoId, play_count |-> 0,
     skip_count |-> 0, complete_count |-> 0, total_play_duration |-> 0,
     last_played_ms |-> NoMs]

NewCurrent(userId, songId) ==
    [open |-> TRUE, user_id |-> userId, song_id |-> songId, play_count |-> 0,
     skip_count |-> 0, complete_count |-> 0, total_play_duration |-> 0,
     last_played_ms |-> NoMs]

\* an accumulation that drops an event whose play_duration is missing
AccumulateDropsMissing(cur, evt) ==
    LET eventType == EventType(evt)
        tsMs == parseTimestampMs(evt.ts)
    IN IF evt.play_duration.kind = "null" THEN cur
       ELSE [cur EXCEPT
          !.play_count = IF eventType = PLAY THEN @ + 1 ELSE @,
          !.skip_count = IF eventType = SKIP THEN @ + 1 ELSE @,
          !.complete_count = IF eventType = COMPLETE THEN @ + 1 ELSE @,
          !.total_play_duration = @ + toNonNegativeNumber(evt.play_duration),
          !.last_played_ms =
              IF tsMs # NoMs /\ (@ = NoMs \/ tsMs > @) THEN tsMs ELSE @]

\* an accumulator that keeps the timestamp of the event read last
AccumulateLast(cur, evt) ==
    LET eventType == EventType(evt)
        tsMs == parseTimestampMs(evt.ts)
    IN [cur EXCEPT
          !.play_count = IF eventType = PLAY THEN @ + 1 ELSE @,
          !.skip_count = IF eventType = SKIP THEN @ + 1 ELSE @,
          !.complete_count = IF eventType = COMPLETE THEN @ + 1 ELSE @,
          !.total_play_duration = @ + toNonNegativeNumber(evt.play_duration),
          !.last_played_ms = IF tsMs # NoMs THEN tsMs ELSE @]

\* lines 350-361: one event added to the open accumulator
Accumulate(cur, evt) ==
    LET eventType == EventType(evt)
        tsMs == parseTimestampMs(evt.ts)
    IN [cur EXCEPT
          !.play_count = IF eventType = PLAY THEN @ + 1 ELSE @,
          !.skip_count = IF eventType = SKIP THEN @ + 1 ELSE @,
          !.complete_count = IF eventType = COMPLETE THEN @ + 1 ELSE @,
          !.total_play_duration = @ + toNonNegativeNumber(evt.play_duration),
          !.last_played_ms =
              IF tsMs # NoMs /\ (@ = NoMs \/ tsMs > @) THEN tsMs ELSE @]

\* a test that ends the open group at every event
GroupEndsAlways(key, curKey) == curKey # NoKey

\* aggregateUserSongFeatures, line 333: currentKey !== null && key !== currentKey
GroupEnds(key, curKey) == curKey # NoKey /\ key # curKey

\* songDurationCache.get(id) ?? 0
CacheGet(cache, id) == IF id \in DOMAIN cache THEN cache[id] ELSE 0

\* a flush that adds the counts of the row already stored under the key
FlushRowAddsStored(cur, cache, t) ==
    LET songDuration == CacheGet(cache, cur.song_id)
        k == <<cur.user_id, cur.song_id>>
        old == IF k \in DOMAIN features THEN features[k].play_count ELSE 0
    IN [user_id |-> cur.user_id,
        song_id |-> cur.song_id,
        play_count |-> cur.play_count + old,
        skip_count |-> cur.skip_count,
        complete_count |-> cur.complete_count,
        total_play_duration |-> cur.total_play_duration,
        avg_play_duration |->
            IF cur.play_count > 0
            THEN MathRound(cur.total_play_duration, cur.play_count) ELSE 0,
        completion_rate |->
            IF songDuration > 0
            THEN clamp01(cur.total_play_duration, songDuration) ELSE <<0, 1>>,
        last_played_at |-> IF cur.last_played_ms # NoMs THEN cur.last_played_ms ELSE t,
        updated_at |-> t]

\* flushCurrent, lines 289-311: the row pushed for the open accumulator at time t
FlushRow(cur, cache, t) ==
    LET songDuration == CacheGet(cache, cur.song_id)
    IN [user_id |-> cur.user_id,
        song_id |-> cur.song_id,
        play_count |-> cur.play_count,
        skip_count |-> cur.skip_count,
        complete_count |-> cur.complete_count,
        total_play_duration |-> cur.total_play_duration,
        avg_play_duration |->
            IF cur.play_count > 0
            THEN MathRound(cur.total_play_duration, cur.play_count) ELSE 0,
        completion_rate |->
            IF songDuration > 0
            THEN clamp01(cur.total_play_duration, songDuration) ELSE <<0, 1>>,
        last_played_at |-> IF cur.last_played_ms # NoMs THEN cur.last_played_ms ELSE t,
        updated_at |-> t]

\* a hydration that keeps no entry for the ids the store does not know
HydrateFoundOnly(cache, songIds) ==
    LET missing == {id \in songIds : id # NoId /\ id \notin DOMAIN cache /\ id \in DOMAIN songs}
    IN [id \in DOMAIN cache \cup missing |->
          IF id \in DOMAIN cache THEN cache[id] ELSE toNonNegativeNumber(songs[id])]


\* a page handed on without its durations being looked up
HydrateSkipped(cache, songIds) == cache

\* hydrateSongDurations: the cache after looking up the ids it does not hold
Hydrate(cache, songIds) ==
    LET missing == {id \in songIds : id # NoId /\ id \notin DOMAIN cache}
    IN [id \in DOMAIN cache \cup missing |->
          IF id \in DOMAIN cache THEN cache[id]
          ELSE IF id \in DOMAIN songs THEN toNonNegativeNumber(songs[id])
          ELSE 0]

\* an upsert that adds the new counts to the stored ones on conflict
RECURSIVE UpsertRowsIncrements(_, _)
UpsertRowsIncrements(table, rows) ==
    IF rows = <<>> THEN table
    ELSE LET r == Head(rows)
             k == <<r.user_id, r.song_id>>
             merged == IF k \in DOMAIN table
                       THEN [r EXCEPT !.play_count = @ + table[k].play_count,
                                      !.skip_count = @ + table[k].skip_count,
                                      !.complete_count = @ + table[k].complete_count,
                                      !.total_play_duration =
                                          @ + table[k].total_play_duration]
                       ELSE r
         IN UpsertRowsIncrements(
                [x \in DOMAIN table \cup {k} |-> IF x = k THEN merged ELSE table[x]],
                Tail(rows))

\* the store's upsert with onConflict "user_id,song_id": the row replaces the old one
RECURSIVE UpsertRows(_, _)
UpsertRows(table, rows) ==
    IF rows = <<>> THEN table
    ELSE LET r == Head(rows)
             k == <<r.user_id, r.song_id>>
         IN UpsertRows([x \in DOMAIN table \cup {k} |-> IF x = k THEN r ELSE table[x]],
                       Tail(rows))

\* the instants a clock read can return: time may have passed since the last read
ClockReads == {t \in now..(now + 1) : t <= MaxClock}

UpsertChunk == 500    \* upsertUserSongFeatures writes chunks of 500 rows

\* onBatch -> upsertUserSongFeatures: every chunk is written
OnBatchOk(rows) ==
    /\ features' = UpsertRows(features, rows)
    /\ totalUpsertsAttempted' = totalUpsertsAttempted + Len(rows)
    /\ batches' = Append(batches, rows)

\* onBatch -> upsertUserSongFeatures: the store rejects chunk k, the error is thrown
OnBatchFails(rows) ==
    /\ \E k \in 1..Len(chunk(rows, UpsertChunk)) :
          features' = UpsertRows(features, Flatten(SubSeq(chunk(rows, UpsertChunk), 1, k - 1)))
    /\ batches' = Append(batches, rows)
    /\ UNCHANGED totalUpsertsAttempted

NoBatch == UNCHANGED <<features, totalUpsertsAttempted, batches>>

\* a buffer that keeps the rows it has handed over
BufferKept(buf) == buf

\* flushCurrent, lines 318-319: const rows = buffer; buffer = []
BufferAfterBatch(buf) == <<>>

\* a test that lets the buffer grow one past the batch size
BufferOverfull(buf, size) == Len(buf) > size

\* flushCurrent, line 317: buffer.length >= batchSize
BufferFull(buf, size) == Len(buf) >= size

\* a test that takes a limit of 0 for no limit
RemainingUnlessZero(lim, n) == IF lim # NoLimit /\ lim # 0 THEN Max(0, lim - n) ELSE NoLimit

\* fetchEvents, line 198: limit !== undefined ? Math.max(0, limit - fetched) : undefined
Remaining(lim, n) == IF lim # NoLimit THEN Max(0, lim - n) ELSE NoLimit

\* a page that is as long as pageSize whatever is left of the limit
TakeOfPageSize(remaining, size) == size

\* fetchEvents, line 201: remaining !== undefined ? Math.min(pageSize, remaining) : pageSize
TakeOf(remaining, size) == IF remaining # NoLimit THEN Min(size, remaining) ELSE size

LookupChunk == 500    \* hydrateSongDurations asks for chunks of 500 ids

\* Array.from(new Set(ids)): the ids in the order of their first occurrence
RECURSIVE Unique(_)
Unique(ids) ==
    IF ids = <<>> THEN <<>>
    ELSE LET front == Unique(SubSeq(ids, 1, Len(ids) - 1))
             last == ids[Len(ids)]
         IN IF \E i \in 1..Len(front) : front[i] = last THEN front
            ELSE Append(front, last)

\* hydrateSongDurations, lines 236-240: the id lists it sends to the store
LookupsOf(cache, songIds) ==
    LET unique == SelectSeq(Unique(songIds), LAMBDA id : id # NoId)
        missing == SelectSeq(unique, LAMBDA id : id \notin DOMAIN cache)
    IN chunk(missing, LookupChunk)

\* .order(user_id).order(song_id).order(timestamp).range(from, from + tk - 1) on
\* the rows in the order the store has put them in
RangeQuery(order, from, tk) == SubSeq(order, from + 1, Min(from + tk, Len(order)))

\* fetchEvents, lines 197-220, with the hydration main wraps around each page;
\* order is the order the store gives the rows for this query
FetchPageOf(order) ==
    /\ aggPc = "fetch"
    /\ LET remaining == Remaining(limit, fetched)
           tk == TakeOf(remaining, pageSize)
           rows == RangeQuery(order, offset, tk)
           pageSongIds == [i \in 1..Len(rows) |-> normalizeId(rows[i].song_id)]
       IN IF remaining = 0
          THEN /\ aggPc' = "drain"
               /\ UNCHANGED <<take, page, pageIdx, songDurationCache, yielded, lookups>>
          ELSE IF rows = <<>>
          THEN /\ aggPc' = "drain"
               /\ take' = tk
               /\ UNCHANGED <<page, pageIdx, songDurationCache, yielded, lookups>>
          ELSE /\ aggPc' = "page"
               /\ take' = tk
               /\ page' = rows
               /\ pageIdx' = 1
               /\ yielded' = yielded \o rows
               /\ lookups' = lookups \o LookupsOf(songDurationCache, pageSongIds)
               /\ songDurationCache' =
                      Hydrate(songDurationCache,
                              {pageSongIds[i] : i \in 1..Len(pageSongIds)})
    /\ UNCHANGED <<events, songs, features, now, limit, pageSize, batchSize, offset,
                   fetched, current, currentKey, buffer, processedEvents,
                   aggregatedRecords, totalUpsertsAttempted, batches, run,
                   firstBatches, firstFeatures, mapFeatures>>
    /\ UNCHANGED ingVars

\* the store answers every query with the rows in the one order of the log
FetchPage == FetchPageOf(events)

\* the orders the store can give the rows: the rows that are equal in
\* (user_id, song_id, timestamp) in any order among themselves
TieOrders ==
    LET n == Len(events)
        perms == {p \in [1..n -> 1..n] : \A i, j \in 1..n : i # j => p[i] # p[j]}
    IN {[i \in 1..n |-> events[p[i]]] :
           p \in {q \in perms : \A i \in 1..(n - 1) :
                                   EventLeq(events[q[i]], events[q[i + 1]])}}

\* the store orders the rows for every query anew
FetchPageAnyTieOrder == \E order \in TieOrders : FetchPageOf(order)

\* fetchEvents line 215 / hydrateSongDurations line 243: a read the store fails
ReadFails ==
    /\ aggPc = "fetch"
    /\ aggPc' = "failed"
    /\ UNCHANGED <<events, songs, features, now, limit, pageSize, batchSize, offset,
                   fetched, take, page, pageIdx, songDurationCache, current,
                   currentKey, buffer, processedEvents, aggregatedRecords,
                   totalUpsertsAttempted, batches, run, firstBatches, firstFeatures,
                   yielded, lookups,
                   mapFeatures>>
    /\ UNCHANGED ingVars

\* a reader that asks on after every page that held a row
PcAfterPageAsksOn(rows, tk) == "fetch"

\* fetchEvents, line 224: if (rows.length < take) break
PcAfterPage(rows, tk) == IF rows < tk THEN "drain" ELSE "fetch"

\* fetchEvents, lines 222-224: the consumer asks for the page after this one
ResumeReader ==
    /\ aggPc = "page"
    /\ pageIdx > Len(page)
    /\ fetched' = fetched + Len(page)
    /\ offset' = offset + Len(page)
    /\ aggPc' = PcAfterPage(Len(page), take)
    /\ page' = <<>>
    /\ pageIdx' = 1
    /\ UNCHANGED <<events, songs, features, now, limit, pageSize, batchSize, take,
                   songDurationCache, current, currentKey, buffer, processedEvents,
                   aggregatedRecords, totalUpsertsAttempted, batches, run,
                   firstBatches, firstFeatures, yielded, lookups, mapFeatures>>
    /\ UNCHANGED ingVars

\* a test that looks at the user id only
SkippedWithoutUser(userId, songId) == userId = NoId

\* aggregateUserSongFeatures, line 328: if (!userId || !songId) continue
Skipped(userId, songId) == userId = NoId \/ songId = NoId

\* aggregateUserSongFeatures, lines 325-362: one event of the page
ProcessEvent ==
    /\ aggPc = "page"
    /\ pageIdx <= Len(page)
    /\ LET evt == page[pageIdx]
           userId == normalizeId(evt.user_id)
           songId == normalizeId(evt.song_id)
           key == KeyOf(userId, songId)
       IN \/ /\ Skipped(userId, songId)
             /\ pageIdx' = pageIdx + 1
             /\ UNCHANGED <<now, aggPc, current, currentKey, buffer, processedEvents,
                            aggregatedRecords, features, totalUpsertsAttempted, batches>>
          \/ /\ ~Skipped(userId, songId)
             /\ \E t \in ClockReads :
                  LET mustFlush == GroupEnds(key, currentKey) /\ current.open
                      buf1 == IF mustFlush
                              THEN Append(buffer, FlushRow(current, songDurationCache, t))
                              ELSE buffer
                      mustWrite == mustFlush /\ BufferFull(buf1, batchSize)
                      cur0 == IF mustFlush THEN NoCurrent ELSE current
                      key0 == IF mustFlush THEN NoKey ELSE currentKey
                      cur1 == IF cur0.open THEN cur0 ELSE NewCurrent(userId, songId)
                      key1 == IF cur0.open THEN key0 ELSE key
                  IN /\ (mustFlush \/ t = now)
                     /\ now' = t
                     /\ processedEvents' = processedEvents + 1
                     /\ aggregatedRecords' = aggregatedRecords + (IF mustFlush THEN 1 ELSE 0)
                     /\ \/ /\ ~mustWrite
                           /\ NoBatch
                           /\ buffer' = buf1
                           /\ current' = Accumulate(cur1, evt)
                           /\ currentKey' = key1
                           /\ pageIdx' = pageIdx + 1
                           /\ UNCHANGED aggPc
                        \/ /\ mustWrite
                           /\ OnBatchOk(buf1)
                           /\ buffer' = BufferAfterBatch(buf1)
                           /\ current' = Accumulate(cur1, evt)
                           /\ currentKey' = key1
                           /\ pageIdx' = pageIdx + 1
                           /\ UNCHANGED aggPc
                        \/ /\ mustWrite
                           /\ OnBatchFails(buf1)
                           /\ buffer' = <<>>
                           /\ current' = NoCurrent
                           /\ currentKey' = NoKey
                           /\ aggPc' = "failed"
                           /\ UNCHANGED pageIdx
    /\ UNCHANGED <<events, songs, limit, pageSize, batchSize, offset, fetched, take,
                   page, songDurationCache, run, firstBatches, firstFeatures, yielded,
                   lookups,
                   mapFeatures>>
    /\ UNCHANGED ingVars

\* aggregateUserSongFeatures, lines 365-371: the last flush and the last batch
Finish ==
    /\ aggPc = "drain"
    /\ \E t \in ClockReads :
         LET buf1 == IF current.open
                     THEN Append(buffer, FlushRow(current, songDurationCache, t))
                     ELSE buffer
         IN /\ (current.open \/ t = now)
            /\ now' = t
            /\ aggregatedRecords' = aggregatedRecords + (IF current.open THEN 1 ELSE 0)
            /\ current' = NoCurrent
            /\ currentKey' = NoKey
            /\ buffer' = <<>>
            /\ \/ /\ buf1 = <<>>
                  /\ NoBatch
                  /\ aggPc' = "done"
               \/ /\ buf1 # <<>>
                  /\ OnBatchOk(buf1)
                  /\ aggPc' = "done"
               \/ /\ buf1 # <<>>
                  /\ OnBatchFails(buf1)
                  /\ aggPc' = "failed"
    /\ UNCHANGED <<events, songs, limit, pageSize, batchSize, offset, fetched, take,
                   page, pageIdx, songDurationCache, processedEvents, run,
                   firstBatches, firstFeatures, yielded, lookups, mapFeatures>>
    /\ UNCHANGED ingVars

\* main started again over the same log: every run starts from offset 0 with a
\* new cache; the feature table is what the first run left
Rerun ==
    /\ aggPc = "done"
    /\ run = 1
    /\ run' = 2
    /\ firstBatches' = batches
    /\ aggPc' = "fetch"
    /\ offset' = 0
    /\ fetched' = 0
    /\ take' = 0
    /\ page' = <<>>
    /\ pageIdx' = 1
    /\ songDurationCache' = NoSongs
    /\ current' = NoCurrent
    /\ currentKey' = NoKey
    /\ buffer' = <<>>
    /\ processedEvents' = 0
    /\ aggregatedRecords' = 0
    /\ totalUpsertsAttempted' = 0
    /\ batches' = <<>>
    /\ yielded' = <<>>
    /\ lookups' = <<>>
    /\ UNCHANGED <<events, songs, features, now, limit, pageSize, batchSize,
                   firstFeatures, mapFeatures>>
    /\ UNCHANGED ingVars

-----------------------------------------------------------------------------
(* Map-based aggregation script *)

MapPageSize == 1000   \* fetchAllEvents pageSize
MapBatch == 50        \* upsertFeatureRows batch size

\* fetchAllEvents: the rows read, page after page, up to the limit
RECURSIVE fetchAllEvents(_, _)
fetchAllEvents(all, off) ==
    LET remaining == Remaining(limit, Len(all))
        tk == IF remaining # NoLimit THEN Min(MapPageSize, remaining) ELSE MapPageSize
        rows == SubSeq(events, off + 1, Min(off + tk, Len(events)))
    IN IF remaining = 0 \/ rows = <<>> THEN all
       ELSE IF Len(rows) < tk THEN all \o rows
       ELSE fetchAllEvents(all \o rows, off + Len(rows))

NewGroup(key, userId, songId) ==
    [key |-> key, user_id |-> userId, song_id |-> songId, play_count |-> 0,
     skip_count |-> 0, complete_count |-> 0, total_play_duration |-> 0,
     last_played_ms |-> NoMs]

\* a group that counts every event as a play
MapAccumulateAllPlays(agg, evt) ==
    LET duration == normalizeDurationSeconds(evt.play_duration)
        tsMs == parseTimestampMs(evt.ts)
    IN [agg EXCEPT
          !.play_count = @ + 1,
          !.total_play_duration = IF duration # NoMs THEN @ + duration ELSE @,
          !.last_played_ms =
              IF tsMs # NoMs /\ (@ = NoMs \/ tsMs > @) THEN tsMs ELSE @]

\* aggregateEvents, lines 227-241: one event added to its group
MapAccumulate(agg, evt) ==
    LET eventType == EventType(evt)
        duration == normalizeDurationSeconds(evt.play_duration)
        tsMs == parseTimestampMs(evt.ts)
    IN [agg EXCEPT
          !.play_count = IF eventType = PLAY THEN @ + 1 ELSE @,
          !.skip_count = IF eventType = SKIP THEN @ + 1 ELSE @,
          !.complete_count = IF eventType = COMPLETE THEN @ + 1 ELSE @,
          !.total_play_duration = IF duration # NoMs THEN @ + duration ELSE @,
          !.last_played_ms =
              IF tsMs # NoMs /\ (@ = NoMs \/ tsMs > @) THEN tsMs ELSE @]

\* aggregateEvents, lines 201-242: the groups, in the order their keys first appear
RECURSIVE MapGroups(_, _)
MapGroups(evts, groups) ==
    IF evts = <<>> THEN groups
    ELSE LET evt == Head(evts)
             userId == normalizeId(evt.user_id)
             songId == normalizeId(evt.song_id)
             key == KeyOf(userId, songId)
         IN IF userId = NoId \/ songId = NoId THEN MapGroups(Tail(evts), groups)
            ELSE IF \E i \in 1..Len(groups) : groups[i].key = key
            THEN LET i == CHOOSE j \in 1..Len(groups) : groups[j].key = key
                 IN MapGroups(Tail(evts),
                              [groups EXCEPT ![i] = MapAccumulate(@, evt)])
            ELSE MapGroups(Tail(evts),
                           Append(groups,
                                  MapAccumulate(NewGroup(key, userId, songId), evt)))

\* aggregateEvents, lines 246-265: the feature row of a group
MapFeatureRow(g, updatedAt) ==
    [user_id |-> g.user_id,
     song_id |-> g.song_id,
     play_count |-> g.play_count,
     skip_count |-> g.skip_count,
     complete_count |-> g.complete_count,
     total_play_duration |-> g.total_play_duration,
     avg_play_duration |->
         IF g.play_count > 0 THEN <<g.total_play_duration, g.play_count>> ELSE <<0, 1>>,
     completion_rate |->
         IF g.play_count > 0 THEN <<g.complete_count, g.play_count>> ELSE <<0, 1>>,
     last_played_at |-> IF g.last_played_ms # NoMs THEN g.last_played_ms ELSE updatedAt,
     updated_at |-> updatedAt]

aggregateEvents(evts, updatedAt) ==
    LET groups == MapGroups(evts, <<>>)
    IN [i \in 1..Len(groups) |-> MapFeatureRow(groups[i], updatedAt)]

\* main of the Map-based script: fetchAllEvents, aggregateEvents, upsertFeatureRows
RunMapScript ==
    /\ aggPc = "fetch"
    /\ run = 1
    /\ offset = 0
    /\ \E t \in ClockReads :
         LET rows == aggregateEvents(fetchAllEvents(<<>>, 0), t)
             chunks == chunk(rows, MapBatch)
         IN /\ now' = t
            /\ mapFeatures' = rows
            /\ \/ /\ features' = UpsertRows(features, rows)
                  /\ aggPc' = "mapdone"
               \/ /\ \E k \in 1..Len(chunks) :
                        features' = UpsertRows(features, Flatten(SubSeq(chunks, 1, k - 1)))
                  /\ aggPc' = "failed"
    /\ UNCHANGED <<events, songs, limit, pageSize, batchSize, offset, fetched, take,
                   page, pageIdx, songDurationCache, current, currentKey, buffer,
                   processedEvents, aggregatedRecords, totalUpsertsAttempted, batches,
                   run, firstBatches, firstFeatures, yielded, lookups>>
    /\ UNCHANGED ingVars

-----------------------------------------------------------------------------
(* Jamendo ingestion worker: values *)

Retries == 4              \* main: withRetry(..., { retries: 4, ... })
EmptyPagesToStop == 2     \* main: if (emptyPagesInARow >= 2) break
OptionCap == 200          \* main: limit and batchSize are clamped to 1..200
DefaultLimit == 100
DefaultBatchSize == 50
DefaultTarget == 300
NoExit == -1              \* process.exit has not been called

\* !value is false: the value is neither null/undefined nor ""
Truthy(value) == ~value.isNull /\ value.chars # <<>>

\* Number(value ?? 0), then Number.isFinite(n) ? n : 0
FiniteOrZero(value) == IF value.kind = "num" THEN value.v ELSE 0

\* a ?? b ?? c ?? d: the first value that is not null/undefined
RECURSIVE Coalesce(_)
Coalesce(values) ==
    IF values = <<>> THEN NumNull
    ELSE IF Head(values).kind # "null" THEN Head(values)
    ELSE Coalesce(Tail(values))

\* a raw record of the catalogue API
Track(id, name, artist, audio, image, duration, popularity) ==
    [id |-> id, name |-> name, artist_name |-> artist, audio |-> audio,
     image |-> image, duration |-> duration, popularity |-> popularity,
     popularity_total |-> NumNull, popularity_week |-> NumNull,
     popularity_month |-> NumNull]

\* a test that asks for the image too
NormalizesWithImage(track) ==
    /\ Truthy(track.id)
    /\ Truthy(track.name)
    /\ Truthy(track.artist_name)
    /\ Truthy(track.audio)
    /\ Truthy(track.image)

\* mapTrackToSongRow, line 142: the record is kept
Normalizes(track) ==
    /\ Truthy(track.id)
    /\ Truthy(track.name)
    /\ Truthy(track.artist_name)
    /\ Truthy(track.audio)

\* mapTrackToSongRow, lines 153-163, for a record it keeps (created_at left out)
mapTrackToSongRow(track, uuid) ==
    [id |-> uuid,
     jamendo_id |-> track.id.chars,
     title |-> track.name.chars,
     artist |-> track.artist_name.chars,
     audio_url |-> track.audio.chars,
     image_url |-> IF Truthy(track.image) THEN track.image.chars ELSE <<>>,
     duration |-> FiniteOrZero(Coalesce(<<track.duration>>)),
     popularity |-> FiniteOrZero(Coalesce(<<track.popularity, track.popularity_total,
                                            track.popularity_week,
                                            track.popularity_month>>))]

\* .map(mapTrackToSongRow).filter(Boolean), n ids having been handed out before
RECURSIVE MapTracks(_, _)
MapTracks(ts, n) ==
    IF ts = <<>> THEN <<>>
    ELSE IF Normalizes(Head(ts))
    THEN <<mapTrackToSongRow(Head(ts), n + 1)>> \o MapTracks(Tail(ts), n + 1)
    ELSE MapTracks(Tail(ts), n)

\* a filter that looks at the ids of earlier pages only
RECURSIVE DedupeForgets(_, _)
DedupeForgets(rows, seen) ==
    IF rows = <<>> THEN <<>>
    ELSE IF Head(rows).jamendo_id \in seen THEN DedupeForgets(Tail(rows), seen)
    ELSE <<Head(rows)>> \o DedupeForgets(Tail(rows), seen)

\* the filter of lines 246-250: rows whose jamendo_id has not been seen
RECURSIVE Dedupe(_, _)
Dedupe(rows, seen) ==
    IF rows = <<>> THEN <<>>
    ELSE IF Head(rows).jamendo_id \in seen THEN Dedupe(Tail(rows), seen)
    ELSE <<Head(rows)>> \o Dedupe(Tail(rows), seen \cup {Head(rows).jamendo_id})

NoSongRows == [k \in {} |-> 0]

JamendoIds(rows) == {rows[i].jamendo_id : i \in 1..Len(rows)}

\* a store that puts the batch in the place of the table
upsertSongsReplaces(table, rows) ==
    [k \in JamendoIds(rows) |-> rows[CHOOSE i \in 1..Len(rows) : rows[i].jamendo_id = k]]

\* upsertSongs: upsert(songs, { onConflict: "jamendo_id" })
upsertSongs(table, rows) ==
    [k \in DOMAIN table \cup JamendoIds(rows) |->
        IF k \in JamendoIds(rows)
        THEN rows[CHOOSE i \in 1..Len(rows) : rows[i].jamendo_id = k]
        ELSE table[k]]

\* the records at the positions off + 1 .. off + L of a catalogue that serves
\* the tracks ts over and over
PageOfEndless(ts, off, L) ==
    IF ts = <<>> THEN <<>> ELSE [i \in 1..L |-> ts[((off + i - 1) % Len(ts)) + 1]]

\* fetchJamendoTracks({ limit, offset, genre }): the results the API serves
PageOf(g, off) ==
    IF endless THEN PageOfEndless(catalog[g], off, ingLimit)
    ELSE SubSeq(catalog[g], off + 1, Min(off + ingLimit, Len(catalog[g])))

\* String.prototype.split(","): the pieces between the commas
RECURSIVE SplitAtCommas(_)
SplitAtCommas(str) ==
    IF \A i \in 1..Len(str) : str[i] # "," THEN <<str>>
    ELSE LET k == CHOOSE i \in 1..Len(str) :
                      str[i] = "," /\ \A j \in 1..(i - 1) : str[j] # ","
         IN <<SubSeq(str, 1, k - 1)>> \o SplitAtCommas(SubSeq(str, k + 1, Len(str)))

\* main, lines 194-200: the tags of --genres or JAMENDO_GENRES, [null] when
\* the string is empty
GenresOf(argvGenres, envGenres) ==
    LET given == IF ~argvGenres.isNull THEN argvGenres.chars
                 ELSE IF ~envGenres.isNull THEN envGenres.chars
                 ELSE <<>>
        genreString == Trim(given)
        pieces == SplitAtCommas(genreString)
        tags == SelectSeq([i \in 1..Len(pieces) |-> Trim(pieces[i])],
                          LAMBDA tag : tag # <<>>)
    IN IF genreString # <<>> THEN [i \in 1..Len(tags) |-> JsStr(tags[i])] ELSE <<JsNull>>

\* main, lines 188-191: the options taken from argv
LimitOf(arg) == IF arg.kind = "num" THEN Min(Max(arg.v, 1), OptionCap) ELSE DefaultLimit
StartOffsetOf(arg) == IF arg.kind = "num" THEN Max(arg.v, 0) ELSE 0
BatchSizeOf(arg) ==
    IF arg.kind = "num" THEN Min(Max(arg.v, 1), OptionCap) ELSE DefaultBatchSize
TargetOf(arg) == IF arg.kind = "num" THEN Max(arg.v, 1) ELSE DefaultTarget

\* a test that lets the count pass the target
TargetExceeded(total, t) == total > t

\* totalUpserted >= target (lines 221, 259, 277)
TargetReached(total, t) == total >= t

\* an exit code that asks for more than the target
ExitCodeStrict(total, t) == IF total > t THEN 0 ELSE 1

\* process.exit(totalUpserted >= target ? 0 : 1)
ExitCode(total, t) == IF total >= t THEN 0 ELSE 1

BaseDelayMs == 800        \* main: withRetry(..., { ..., baseDelayMs: 800 })
DelayCapMs == 10000       \* withRetry: Math.min(10_000, ...)
JitterMs == 250           \* withRetry: Math.floor(Math.random() * 250)

\* the values of Math.floor(Math.random() * 250) the model draws: both ends
Jitters == {0, JitterMs - 1}

\* a delay that does not grow with the attempt
DelayFlat(k, jitter) == Min(DelayCapMs, BaseDelayMs) + jitter

\* withRetry, line 91: the delay after the failure of attempt k
DelayMs(k, jitter) == Min(DelayCapMs, BaseDelayMs * 2 ^ (k - 1)) + jitter

\* a loop that goes round once more
GiveUpLate(k) == ~(k <= Retries)

\* withRetry: after the failure of attempt k the loop ends (attempt <= retries fails)
GiveUp(k) == ~(k + 1 <= Retries)

-----------------------------------------------------------------------------
(* Jamendo ingestion worker: main *)

PageEntry(g, off, ts, failed) ==
    [genre |-> g, offset |-> off, raw |-> Len(ts), failed |-> failed]

BatchEntry(g, off, batch, ok, sent) ==
    [genre |-> g, offset |-> off,
     ids |-> [i \in 1..Len(batch) |-> batch[i].jamendo_id], ok |-> ok, sent |-> sent]

\* main, lines 179-217: the client id is checked, the first partition is entered
IngStart ==
    /\ ingPc = "start"
    /\ IF ~clientIdSet
       THEN /\ ingPc' = "fatal"
            /\ exitCode' = 1
            /\ UNCHANGED <<genreIdx, ingOffset, emptyPagesInARow>>
       ELSE IF genres = <<>>
       THEN \* for (const genre of genres) has nothing to go through
            /\ ingPc' = "done"
            /\ UNCHANGED <<genreIdx, ingOffset, emptyPagesInARow, exitCode>>
       ELSE /\ ingPc' = "while"
            /\ genreIdx' = 1
            /\ ingOffset' = startOffset
            /\ emptyPagesInARow' = 0
            /\ UNCHANGED exitCode
    /\ UNCHANGED <<aggVars, ingEnv, songTable, totalUpserted, seenJamendoIds, attempt,
                   tracks, pending, uuids, attemptLog, waits, pageLog, submitted, seenBefore,
                   pageSubmitted>>

MaxTracks == 3        \* longest catalogue of a partition
MaxGenres == 2        \* most partitions of a run

\* a run is followed for MaxPages pages: a partition of n tracks is left after
\* n + 2 pages at most, the last two of them empty
MaxPages == MaxGenres * (MaxTracks + 2)

\* Over a catalogue without end a run has pages beyond these.  There the page
\* served depends on the offset by its remainder only, so the model keeps the
\* remainder in the place of the offset, and adds nothing to the log of pages
\* and to the count of ids handed out.
Followed == ~endless \/ Len(pageLog) < MaxPages

OffsetKept(off) == IF Followed THEN off ELSE off % Len(catalog[genreIdx])

PageLogged(entry) == IF Followed THEN Append(pageLog, entry) ELSE pageLog

UuidsKept(n) == IF Followed THEN n ELSE uuids

\* main, lines 221 and 277: while (totalUpserted < target), and the break that
\* follows the loop once the target is reached
WhileTest ==
    /\ ingPc = "while"
    /\ TargetReached(totalUpserted, target) \/ endless \/ Len(pageLog) < MaxPages
    /\ IF ~TargetReached(totalUpserted, target)
       THEN /\ ingPc' = "fetch"
            /\ attempt' = 1
       ELSE /\ ingPc' = "done"
            /\ UNCHANGED attempt
    /\ UNCHANGED <<aggVars, ingEnv, songTable, genreIdx, ingOffset, emptyPagesInARow,
                   totalUpserted, seenJamendoIds, tracks, pending, uuids, exitCode,
                   attemptLog, waits, pageLog, submitted, seenBefore, pageSubmitted>>

\* withRetry, line 86: an attempt that succeeds returns the page
FetchOk ==
    /\ ingPc = "fetch"
    /\ LET ts == PageOf(genreIdx, ingOffset)
       IN /\ tracks' = ts
          /\ pageLog' = PageLogged(PageEntry(genreIdx, ingOffset, ts, FALSE))
    /\ attemptLog' = Append(attemptLog, TRUE)
    /\ UNCHANGED waits
    /\ ingPc' = "page"
    /\ UNCHANGED <<aggVars, ingEnv, songTable, genreIdx, ingOffset, emptyPagesInARow,
                   totalUpserted, seenJamendoIds, attempt, pending, uuids, exitCode,
                   submitted, seenBefore, pageSubmitted>>

\* withRetry, lines 87-104, and the catch of lines 226-230: an attempt that fails
\* is followed by the next one, the last one by the empty page
FetchFails ==
    /\ ingPc = "fetch"
    /\ faulty
    /\ attemptLog' = Append(attemptLog, FALSE)
    /\ IF GiveUp(attempt)
       THEN /\ tracks' = <<>>
            /\ pageLog' = Append(pageLog, PageEntry(genreIdx, ingOffset, <<>>, TRUE))
            /\ ingPc' = "page"
            /\ UNCHANGED <<attempt, waits>>
       ELSE /\ \E jitter \in Jitters : waits' = Append(waits, DelayMs(attempt, jitter))
            /\ attempt' = attempt + 1
            /\ UNCHANGED <<tracks, pageLog, ingPc>>
    /\ UNCHANGED <<aggVars, ingEnv, songTable, genreIdx, ingOffset, emptyPagesInARow,
                   totalUpserted, seenJamendoIds, pending, uuids, exitCode, submitted,
                   seenBefore, pageSubmitted>>

\* an offset that advances by one record
NextOffsetByOne(off, L) == off + 1

\* main, lines 253 and 274: offset += limit
NextOffset(off, L) == off + L

\* a count that a page with records does not reset
EmptyPagesKept(ts, n) == IF ts = <<>> THEN n + 1 ELSE n

\* a count that no page raises
EmptyPagesUncounted(ts, n) == 0

\* main, lines 232-240: emptyPagesInARow after the page ts
EmptyPagesAfter(ts, n) == IF ts = <<>> THEN n + 1 ELSE 0

\* main, lines 232-255: the page is counted, mapped and deduplicated
ProcessPage ==
    /\ ingPc = "page"
    /\ LET empties == EmptyPagesAfter(tracks, emptyPagesInARow)
           rows == MapTracks(tracks, uuids)
           mapped == Dedupe(rows, seenJamendoIds)
           more == genreIdx < Len(genres)
       IN IF tracks = <<>> /\ empties >= EmptyPagesToStop
          THEN \* break; line 277 does not hold; the next partition, if any
               /\ genreIdx' = IF more THEN genreIdx + 1 ELSE genreIdx
               /\ ingOffset' = IF more THEN startOffset ELSE ingOffset
               /\ emptyPagesInARow' = IF more THEN 0 ELSE empties
               /\ ingPc' = IF more THEN "while" ELSE "done"
               /\ UNCHANGED <<seenJamendoIds, uuids, pending>>
          ELSE /\ emptyPagesInARow' = empties
               /\ seenJamendoIds' = seenJamendoIds \cup JamendoIds(mapped)
               /\ uuids' = UuidsKept(uuids + Len(rows))
               /\ UNCHANGED genreIdx
               /\ IF mapped = <<>>
                  THEN /\ ingOffset' = OffsetKept(NextOffset(ingOffset, ingLimit))
                       /\ ingPc' = "while"
                       /\ UNCHANGED pending
                  ELSE /\ pending' = chunk(mapped, ingBatchSize)
                       /\ ingPc' = "batches"
                       /\ UNCHANGED ingOffset
    /\ attempt' = 0
    /\ attemptLog' = <<>>
    /\ waits' = <<>>
    /\ seenBefore' = seenJamendoIds
    /\ pageSubmitted' = <<>>
    /\ UNCHANGED <<aggVars, ingEnv, songTable, totalUpserted, tracks, exitCode,
                   pageLog, submitted>>

\* main, lines 259-267: getSupabaseClient finds the credentials, the store takes
\* the batch
UpsertBatchCounting(upserted) ==
    /\ ingPc = "batches"
    /\ pending # <<>>
    /\ ~TargetReached(totalUpserted, target)
    /\ storeCredsSet
    /\ LET batch == Head(pending)
       IN /\ songTable' = upsertSongs(songTable, batch)
          /\ totalUpserted' = totalUpserted + upserted
          /\ submitted' = Append(submitted, BatchEntry(genreIdx, ingOffset, batch, TRUE, TRUE))
          /\ pageSubmitted' = pageSubmitted \o batch
    /\ pending' = Tail(pending)
    /\ UNCHANGED <<aggVars, ingEnv, genreIdx, ingOffset, emptyPagesInARow,
                   seenJamendoIds, attempt, tracks, uuids, exitCode, ingPc, attemptLog, waits,
                   pageLog, seenBefore>>

\* upsertSongs, line 47: the store returns the rows it has written, data.length
\* is the length of the batch
UpsertBatchOk == pending # <<>> /\ UpsertBatchCounting(Len(Head(pending)))

\* upsertSongs, line 47: the select after the upsert returns fewer rows than
\* the store has written
UpsertBatchShort ==
    /\ pending # <<>>
    /\ \E upserted \in 0..(Len(Head(pending)) - 1) : UpsertBatchCounting(upserted)

\* a rejected batch that is counted all the same
UpsertBatchFailsCounted ==
    /\ ingPc = "batches"
    /\ pending # <<>>
    /\ ~TargetReached(totalUpserted, target)
    /\ (faulty \/ ~storeCredsSet)
    /\ LET batch == Head(pending)
       IN /\ submitted' = Append(submitted, BatchEntry(genreIdx, ingOffset, batch, FALSE,
                                                      storeCredsSet))
          /\ pageSubmitted' = pageSubmitted \o batch
          /\ totalUpserted' = totalUpserted + Len(batch)
    /\ pending' = Tail(pending)
    /\ UNCHANGED <<aggVars, ingEnv, songTable, genreIdx, ingOffset, emptyPagesInARow,
                   seenJamendoIds, attempt, tracks, uuids, exitCode,
                   ingPc, attemptLog, waits, pageLog, seenBefore>>

\* main, lines 259-271: upsertSongs throws (getSupabaseClient finds a credential
\* missing, or the store rejects the batch), the error is logged
UpsertBatchFails ==
    /\ ingPc = "batches"
    /\ pending # <<>>
    /\ ~TargetReached(totalUpserted, target)
    /\ (faulty \/ ~storeCredsSet)
    /\ LET batch == Head(pending)
       IN /\ submitted' = Append(submitted, BatchEntry(genreIdx, ingOffset, batch, FALSE,
                                                      storeCredsSet))
          /\ pageSubmitted' = pageSubmitted \o batch
    /\ pending' = Tail(pending)
    /\ UNCHANGED <<aggVars, ingEnv, songTable, genreIdx, ingOffset, emptyPagesInARow,
                   totalUpserted, seenJamendoIds, attempt, tracks, uuids, exitCode,
                   ingPc, attemptLog, waits, pageLog, seenBefore>>

\* main, lines 258-259 and 274: the batch loop ends, or breaks at the target
EndOfPage ==
    /\ ingPc = "batches"
    /\ (pending = <<>> \/ TargetReached(totalUpserted, target))
    /\ pending' = <<>>
    /\ ingOffset' = OffsetKept(NextOffset(ingOffset, ingLimit))
    /\ ingPc' = "while"
    /\ UNCHANGED <<aggVars, ingEnv, songTable, genreIdx, emptyPagesInARow,
                   totalUpserted, seenJamendoIds, attempt, tracks, uuids, exitCode,
                   attemptLog, waits, pageLog, submitted, seenBefore, pageSubmitted>>

\* main, lines 280-283
Exit ==
    /\ ingPc = "done"
    /\ exitCode' = ExitCode(totalUpserted, target)
    /\ ingPc' = "exited"
    /\ UNCHANGED <<aggVars, ingEnv, songTable, genreIdx, ingOffset, emptyPagesInARow,
                   totalUpserted, seenJamendoIds, attempt, tracks, pending, uuids,
                   attemptLog, waits, pageLog, submitted, seenBefore, pageSubmitted>>

MaxRuns == 2          \* the script is run at most MaxRuns times in a row

\* the script is started again, against the same catalogue and the table the
\* run before has left
IngRerun ==
    /\ ingPc = "exited"
    /\ ingRun < MaxRuns
    /\ ingRun' = ingRun + 1
    /\ tableBefore' = songTable
    /\ genreIdx' = 1
    /\ ingOffset' = 0
    /\ emptyPagesInARow' = 0
    /\ totalUpserted' = 0
    /\ seenJamendoIds' = {}
    /\ attempt' = 0
    /\ tracks' = <<>>
    /\ pending' = <<>>
    /\ exitCode' = NoExit
    /\ ingPc' = "start"
    /\ attemptLog' = <<>>
    /\ waits' = <<>>
    /\ seenBefore' = {}
    /\ pageSubmitted' = <<>>
    /\ UNCHANGED <<aggVars, catalog, endless, clientIdSet, storeCredsSet, faulty, genreArgs, genres,
                   ingLimit,
                   startOffset, ingBatchSize, target, songTable, uuids, pageLog,
                   submitted>>

\* the genre strings of a run and the list main makes of them
GenresFrom(argvGenres, envGenres) ==
    /\ genreArgs = <<argvGenres, envGenres>>
    /\ genres = GenresOf(argvGenres, envGenres)

\* no ingestion run
IngIdle ==
    /\ endless = FALSE
    /\ catalog = <<>>
    /\ songTable = NoSongRows
    /\ ingRun = 0
    /\ tableBefore = NoSongRows
    /\ clientIdSet = TRUE
    /\ storeCredsSet = TRUE
    /\ faulty = FALSE
    /\ GenresFrom(JsNull, JsNull)
    /\ ingLimit = DefaultLimit
    /\ startOffset = 0
    /\ ingBatchSize = DefaultBatchSize
    /\ target = DefaultTarget
    /\ genreIdx = 1
    /\ ingOffset = 0
    /\ emptyPagesInARow = 0
    /\ totalUpserted = 0
    /\ seenJamendoIds = {}
    /\ attempt = 0
    /\ tracks = <<>>
    /\ pending = <<>>
    /\ uuids = 0
    /\ exitCode = NoExit
    /\ ingPc = "idle"
    /\ attemptLog = <<>>
    /\ waits = <<>>
    /\ pageLog = <<>>
    /\ submitted = <<>>
    /\ seenBefore = {}
    /\ pageSubmitted = <<>>

-----------------------------------------------------------------------------
(* The aggregation runs *)

AggStart ==
    /\ now = 0
    /\ offset = 0
    /\ fetched = 0
    /\ take = 0
    /\ page = <<>>
    /\ pageIdx = 1
    /\ songDurationCache = NoSongs
    /\ current = NoCurrent
    /\ currentKey = NoKey
    /\ buffer = <<>>
    /\ processedEvents = 0
    /\ aggregatedRecords = 0
    /\ totalUpsertsAttempted = 0
    /\ aggPc = "fetch"
    /\ batches = <<>>
    /\ run = 1
    /\ firstBatches = <<>>
    /\ firstFeatures = features
    /\ yielded = <<>>
    /\ lookups = <<>>
    /\ mapFeatures = <<>>

\* logs whose events differ in their ids, under every page and batch size
InitIds ==
    /\ events \in OrderedLogs(IdShapes)
    /\ songs = SongsWith(SongC, Num(100))
    /\ features = NoFeatures
    /\ limit = NoLimit
    /\ pageSize \in 1..MaxPageSize
    /\ batchSize \in 1..MaxBatchSize

\* logs of one pair whose events differ in kind and duration
InitKinds ==
    /\ events \in OrderedLogs(KindShapes)
    /\ songs = SongsWith(SongC, Num(100))
    /\ features = NoFeatures
    /\ limit = NoLimit
    /\ pageSize = MaxPageSize
    /\ batchSize = MaxBatchSize

\* logs of one pair whose events differ in their timestamp, under every
\* reference duration, limit and earlier content of the feature table
InitTimes ==
    /\ events \in OrderedLogs(TsShapes)
    /\ songs \in SongTables
    /\ features \in {NoFeatures, StaleFeatures}
    /\ limit \in {NoLimit, 0, 2}
    /\ pageSize = MaxPageSize
    /\ batchSize = MaxBatchSize

Init ==
    /\ (InitIds \/ InitKinds \/ InitTimes)
    /\ AggStart
    /\ IngIdle

Next ==
    \/ FetchPage
    \/ ReadFails
    \/ ProcessEvent
    \/ ResumeReader
    \/ Finish
    \/ Rerun
    \/ RunMapScript

Spec == Init /\ [][Next]_vars

\* events of one pair that differ in kind, two of them at the same time
TieShapes ==
    {Evt(JsStr(UserA), JsStr(SongC), TypePlay, Num(30), TsDate(1)),
     Evt(JsStr(UserA), JsStr(SongC), TypeSkip, Num(30), TsDate(1)),
     Evt(JsStr(UserA), JsStr(SongC), TypeComplete, Num(30), TsDate(2))}

\* logs with events that are equal in (user_id, song_id, timestamp), read
\* without a limit under every page size
InitTies ==
    /\ events \in OrderedLogs(TieShapes)
    /\ songs = SongsWith(SongC, Num(100))
    /\ features = NoFeatures
    /\ limit = NoLimit
    /\ pageSize \in 1..MaxPageSize
    /\ batchSize = MaxBatchSize

InitTiesRun ==
    /\ InitTies
    /\ AggStart
    /\ IngIdle

NextTies ==
    \/ FetchPageAnyTieOrder
    \/ ReadFails
    \/ ProcessEvent
    \/ ResumeReader
    \/ Finish

\* the streaming script over a store that orders equal rows anew for every query
SpecTies == InitTiesRun /\ [][NextTies]_vars

\* events of rows whose user id holds the ":" that joins the key
UserAB == <<"a", ":", "b">>

ColonShapes ==
    {Evt(JsStr(UserA), JsStr(SongBC), TypePlay, Num(30), TsDate(1)),
     Evt(JsStr(UserAB), JsStr(SongC), TypePlay, Num(30), TsDate(1)),
     Evt(JsStr(UserA), JsStr(SongC), TypeSkip, Num(30), TsDate(1))}

\* logs with such rows, under every page size and batch size
InitColon ==
    /\ events \in OrderedLogs(ColonShapes)
    /\ songs = SongsWith(SongC, Num(100))
    /\ features = NoFeatures
    /\ limit = NoLimit
    /\ pageSize \in 1..MaxPageSize
    /\ batchSize \in 1..MaxBatchSize

InitColonRun ==
    /\ InitColon
    /\ AggStart
    /\ IngIdle

\* both aggregation scripts over such logs
SpecColon == InitColonRun /\ [][Next]_vars

MaxAppends == 1       \* most events logged while a run is under way

\* the events POST /api/events stores during a run: trimmed ids, no duration
\* (the route hands none to insertEvent), the time of the request
LoggedShapes ==
    {Evt(JsStr(u), JsStr(SongC), TypePlay, NumNull, TsDate(2)) : u \in {UserA, UserB}}

\* the rows of the log that were stored during the run
LoggedIdx == {i \in 1..Len(events) : events[i] \in LoggedShapes}

\* insertEvent: a row is added to the table; the queries that follow find it
\* at its place in the order of (user_id, song_id, timestamp)
InsertEvent ==
    /\ aggPc = "page"
    /\ Cardinality(LoggedIdx) < MaxAppends
    /\ \E evt \in LoggedShapes, k \in 0..Len(events) :
          LET log == SubSeq(events, 1, k) \o <<evt>> \o SubSeq(events, k + 1, Len(events))
          IN /\ \A i \in 1..(Len(log) - 1) : EventLeq(log[i], log[i + 1])
             /\ events' = log
    /\ UNCHANGED <<songs, features, now, limit, pageSize, batchSize, offset, fetched,
                   take, page, pageIdx, songDurationCache, current, currentKey, buffer,
                   processedEvents, aggregatedRecords, totalUpsertsAttempted, aggPc,
                   batches, run, firstBatches, firstFeatures, yielded, lookups,
                   mapFeatures>>
    /\ UNCHANGED ingVars

\* the logs of InitIds, read while the playback layer logs events
InitLogging ==
    /\ InitIds
    /\ AggStart
    /\ IngIdle

NextLogging ==
    \/ FetchPage
    \/ ReadFails
    \/ ProcessEvent
    \/ ResumeReader
    \/ Finish
    \/ InsertEvent

SpecLogging == InitLogging /\ [][NextLogging]_vars

\* logs of one pair whose timestamps come in any order: the store orders the
\* column as it is stored, the script parses it with Date
UnorderedLogs(shapes) == UNION {[1..n -> shapes] : n \in 0..MaxEvents}

InitUnordered ==
    /\ events \in UnorderedLogs(TsShapes)
    /\ songs = SongsWith(SongC, Num(100))
    /\ features = NoFeatures
    /\ limit = NoLimit
    /\ pageSize \in 1..MaxPageSize
    /\ batchSize = MaxBatchSize

InitUnorderedRun ==
    /\ InitUnordered
    /\ AggStart
    /\ IngIdle

\* the aggregator over groups whose events are not in the order of their times
SpecUnordered == InitUnorderedRun /\ [][Next]_vars

\* logs of one pair under every page size and every limit
InitReader ==
    /\ events \in OrderedLogs(TsShapes)
    /\ songs = SongsWith(SongC, Num(100))
    /\ features = NoFeatures
    /\ limit \in {NoLimit} \cup 0..MaxEvents
    /\ pageSize \in 1..MaxPageSize
    /\ batchSize = MaxBatchSize

InitReaderRun ==
    /\ InitReader
    /\ AggStart
    /\ IngIdle

\* the script is a process that runs on: a step that can be taken is taken
SpecReader == InitReaderRun /\ [][Next]_vars /\ WF_vars(Next)

-----------------------------------------------------------------------------
(* The ingestion runs *)

MaxLimit == 2         \* largest --limit
MaxIngBatch == 2      \* largest --batch-size
MaxTarget == 3        \* largest --target

Digits == <<"1", "2", "3", "4", "5", "6", "7", "8", "9">>
Text(c) == JsStr(<<c>>)

\* a record with every required field, and records that lack one
GoodTrack(n, title) ==
    Track(Text(Digits[n]), Text(title), Text("r"), Text("u"), JsNull, Num(30), Num(5))
NoTitleTrack(n) ==
    Track(Text(Digits[n]), JsNull, Text("r"), Text("u"), JsNull, Num(30), Num(5))
NoArtistTrack(n) ==
    Track(Text(Digits[n]), Text("x"), JsStr(<<>>), Text("u"), JsNull, Num(30), Num(5))
NoAudioTrack(n) ==
    Track(Text(Digits[n]), Text("x"), Text("r"), JsNull, JsNull, Num(30), Num(5))
NoIdTrack ==
    Track(JsNull, Text("x"), Text("r"), Text("u"), Text("i"), NumNaN, NumNull)

RecordShapes ==
    {GoodTrack(1, "x"), GoodTrack(1, "y"), GoodTrack(2, "x"), NoTitleTrack(2)}

LackingShapes == {NoIdTrack, NoTitleTrack(1), NoArtistTrack(1), NoAudioTrack(1)}

SeqsUpTo(S, n) == UNION {[1..k -> S] : k \in 0..n}

\* the values of a numeric flag: absent, or a number
ArgValues(n) == {NumNaN} \cup {Num(k) : k \in 0..n}

\* partition g of a catalogue whose neighbouring partitions share a record
\* "1", "1,2", "1,2,3": the first n digits as a --genres value
RECURSIVE CommaList(_)
CommaList(n) == IF n = 1 THEN <<Digits[1]>> ELSE CommaList(n - 1) \o <<",", Digits[n]>>

SharedPartition(g) == <<GoodTrack(g, "x"), GoodTrack(g + 1, "x")>>

IngBegin ==
    /\ songTable = NoSongRows
    /\ ingRun = 1
    /\ tableBefore = NoSongRows
    /\ genreIdx = 1
    /\ ingOffset = 0
    /\ emptyPagesInARow = 0
    /\ totalUpserted = 0
    /\ seenJamendoIds = {}
    /\ attempt = 0
    /\ tracks = <<>>
    /\ pending = <<>>
    /\ uuids = 0
    /\ exitCode = NoExit
    /\ ingPc = "start"
    /\ attemptLog = <<>>
    /\ waits = <<>>
    /\ pageLog = <<>>
    /\ submitted = <<>>
    /\ seenBefore = {}
    /\ pageSubmitted = <<>>

\* no aggregation run
AggIdle ==
    /\ events = <<>>
    /\ songs = NoSongs
    /\ features = NoFeatures
    /\ limit = NoLimit
    /\ pageSize = MaxPageSize
    /\ batchSize = MaxBatchSize
    /\ AggStart

\* one partition whose records differ in what they lack and in their ids; the
\* API and the store answer every call
InitRecords ==
    /\ endless = FALSE
    /\ catalog \in {<<ts>> : ts \in SeqsUpTo(RecordShapes, MaxTracks)}
    /\ GenresFrom(JsNull, JsNull)
    /\ clientIdSet = TRUE
    /\ storeCredsSet = TRUE
    /\ faulty = FALSE
    /\ ingLimit \in {LimitOf(Num(n)) : n \in 1..MaxLimit}
    /\ startOffset = 0
    /\ ingBatchSize \in {BatchSizeOf(Num(n)) : n \in 1..MaxIngBatch}
    /\ target \in {TargetOf(Num(n)) : n \in 1..MaxTarget}

\* the same catalogues under the largest target only
InitRecordsLive ==
    /\ InitRecords
    /\ target = TargetOf(Num(MaxTarget))

\* one page with a record that lacks a required field, before or after a record
\* that lacks none
InitLacking ==
    /\ endless = FALSE
    /\ catalog \in {<<(<<a, GoodTrack(1, "x")>>)>> : a \in LackingShapes}
                  \cup {<<(<<GoodTrack(2, "x"), a>>)>> : a \in LackingShapes}
    /\ GenresFrom(JsNull, JsNull)
    /\ clientIdSet = TRUE
    /\ storeCredsSet = TRUE
    /\ faulty = FALSE
    /\ ingLimit = LimitOf(Num(MaxLimit))
    /\ startOffset = 0
    /\ ingBatchSize = BatchSizeOf(Num(MaxIngBatch))
    /\ target = TargetOf(Num(MaxTarget))

\* String(n) of a whole number n >= 0
RECURSIVE Decimal(_)
Decimal(n) ==
    LET digit == <<"0", "1", "2", "3", "4", "5", "6", "7", "8", "9">>[(n % 10) + 1]
    IN IF n < 10 THEN <<digit>> ELSE Decimal(n \div 10) \o <<digit>>

\* a partition of 30 records with ids of their own, asked for with
\* --target 50 --limit 20
InitThirtyRecords ==
    /\ endless = FALSE
    /\ catalog = <<[n \in 1..30 |->
                      Track(JsStr(Decimal(n)), Text("x"), Text("r"), Text("u"),
                            JsNull, Num(30), Num(5))]>>
    /\ GenresFrom(JsNull, JsNull)
    /\ clientIdSet = TRUE
    /\ storeCredsSet = TRUE
    /\ faulty = FALSE
    /\ ingLimit = LimitOf(Num(20))
    /\ startOffset = StartOffsetOf(NumNaN)
    /\ ingBatchSize = BatchSizeOf(NumNaN)
    /\ target = TargetOf(Num(50))

\* what Number(...) makes of a duration or a popularity: absent, not a number,
\* below zero, zero, above zero
NumberShapes == {NumNull, NumNaN, Num(-5), Num(0), Num(30)}

\* one record that lacks no field, with a duration and a popularity of any shape
InitNumbers ==
    /\ endless = FALSE
    /\ catalog \in {<<(<<Track(Text("1"), Text("x"), Text("r"), Text("u"), JsNull, d, q)>>)>> :
                        d \in NumberShapes, q \in NumberShapes}
    /\ GenresFrom(JsNull, JsNull)
    /\ clientIdSet = TRUE
    /\ storeCredsSet = TRUE
    /\ faulty = FALSE
    /\ ingLimit = LimitOf(Num(MaxLimit))
    /\ startOffset = 0
    /\ ingBatchSize = BatchSizeOf(Num(MaxIngBatch))
    /\ target = TargetOf(Num(MaxTarget))

\* what --genres or JAMENDO_GENRES can be: not given, empty, blank, separators
\* only, one tag, a tag and an empty entry
GenreStrings ==
    {JsNull, JsStr(<<>>), JsStr(<<" ">>), JsStr(<<",">>), JsStr(<<" ", ",", " ", ",">>),
     JsStr(<<"1">>), JsStr(<<" ", "1", " ", ",", " ">>)}

\* runs that differ in their genre strings
InitGenres ==
    /\ \E a \in GenreStrings, b \in GenreStrings :
          /\ GenresFrom(a, b)
          /\ endless = FALSE
          /\ catalog = [g \in 1..Len(GenresOf(a, b)) |-> SharedPartition(g)]
    /\ clientIdSet = TRUE
    /\ storeCredsSet = TRUE
    /\ faulty = FALSE
    /\ ingLimit = LimitOf(Num(MaxLimit))
    /\ startOffset = 0
    /\ ingBatchSize = BatchSizeOf(Num(MaxIngBatch))
    /\ target = TargetOf(Num(MaxTarget))

\* a run without the store's credentials, with and without the client id
InitNoCredentials ==
    /\ endless = FALSE
    /\ catalog = <<SharedPartition(1)>>
    /\ GenresFrom(JsNull, JsNull)
    /\ clientIdSet \in BOOLEAN
    /\ storeCredsSet = FALSE
    /\ faulty = FALSE
    /\ ingLimit \in {LimitOf(Num(n)) : n \in 1..MaxLimit}
    /\ startOffset = 0
    /\ ingBatchSize \in {BatchSizeOf(Num(n)) : n \in 1..MaxIngBatch}
    /\ target \in {TargetOf(Num(n)) : n \in 1..MaxTarget}

\* partitions that share records, with an API and a store that can fail
InitFaults ==
    /\ \E n \in 1..MaxGenres :
          /\ GenresFrom(JsStr(CommaList(n)), JsNull)
          /\ endless = FALSE
          /\ catalog = [g \in 1..n |-> SharedPartition(g)]
    /\ clientIdSet = TRUE
    /\ storeCredsSet = TRUE
    /\ faulty = TRUE
    /\ ingLimit \in {LimitOf(Num(n)) : n \in 1..MaxLimit}
    /\ startOffset = 0
    /\ ingBatchSize = BatchSizeOf(Num(1))
    /\ target \in {TargetOf(Num(n)) : n \in 1..MaxTarget}

\* the flags as argv gives them, with and without the client id
InitOptions ==
    /\ endless = FALSE
    /\ catalog = <<SharedPartition(1)>>
    /\ GenresFrom(JsNull, JsNull)
    /\ clientIdSet \in BOOLEAN
    /\ storeCredsSet = TRUE
    /\ faulty = FALSE
    /\ ingLimit \in {LimitOf(a) : a \in ArgValues(MaxLimit)}
    /\ startOffset \in {StartOffsetOf(a) : a \in ArgValues(1)}
    /\ ingBatchSize \in {BatchSizeOf(a) : a \in ArgValues(MaxIngBatch)}
    /\ target \in {TargetOf(a) : a \in ArgValues(MaxTarget)}

InitIngest ==
    /\ (InitRecords \/ InitLacking \/ InitFaults \/ InitOptions \/ InitThirtyRecords
           \/ InitNoCredentials \/ InitNumbers \/ InitGenres)
    /\ IngBegin
    /\ AggIdle

NextIngest ==
    \/ IngStart
    \/ WhileTest
    \/ FetchOk
    \/ FetchFails
    \/ ProcessPage
    \/ UpsertBatchOk
    \/ UpsertBatchFails
    \/ EndOfPage
    \/ Exit

SpecIngest == InitIngest /\ [][NextIngest]_vars


\* one partition, with an API and a store that can fail
InitFaultsOnePartition ==
    /\ GenresFrom(JsStr(CommaList(1)), JsNull)
    /\ endless = FALSE
    /\ catalog = <<SharedPartition(1)>>
    /\ clientIdSet = TRUE
    /\ storeCredsSet = TRUE
    /\ faulty = TRUE
    /\ ingLimit \in {LimitOf(Num(n)) : n \in 1..MaxLimit}
    /\ startOffset = 0
    /\ ingBatchSize = BatchSizeOf(Num(1))
    /\ target \in {TargetOf(Num(n)) : n \in 1..MaxTarget}

\* a catalogue without end: the same tracks, valid or not, at every offset
InitEndless ==
    /\ endless = TRUE
    /\ catalog \in {<<SharedPartition(1)>>} \cup {<<(<<a>>)>> : a \in LackingShapes}
    /\ GenresFrom(JsNull, JsNull)
    /\ clientIdSet = TRUE
    /\ storeCredsSet \in BOOLEAN
    /\ faulty = FALSE
    /\ ingLimit \in {LimitOf(Num(n)) : n \in 1..MaxLimit}
    /\ startOffset = 0
    /\ ingBatchSize = BatchSizeOf(Num(1))
    /\ target \in {TargetOf(Num(n)) : n \in 1..MaxTarget}

InitEndlessRun ==
    /\ IngBegin
    /\ AggIdle
    /\ InitEndless

\* the API answers every request: no attempt at a page fails
NextEndless ==
    \/ IngStart
    \/ WhileTest
    \/ FetchOk
    \/ ProcessPage
    \/ UpsertBatchOk
    \/ UpsertBatchFails
    \/ EndOfPage
    \/ Exit

\* the worker against a catalogue without end, every enabled step taken in the end
SpecEndless == InitEndlessRun /\ [][NextEndless]_vars /\ WF_vars(NextEndless)

\* runs against a store whose answer may hold fewer rows than the batch
InitCounts ==
    /\ (InitRecords \/ InitFaultsOnePartition \/ InitOptions \/ InitThirtyRecords)
    /\ IngBegin
    /\ AggIdle

NextCounts == NextIngest \/ UpsertBatchShort

SpecCounts == InitCounts /\ [][NextCounts]_vars

InitIngestLive ==
    /\ IngBegin
    /\ AggIdle
    /\ (InitRecordsLive \/ InitLacking \/ InitFaultsOnePartition \/ InitOptions
           \/ InitThirtyRecords)

\* runs of the script one after the other
InitRerun ==
    /\ IngBegin
    /\ AggIdle
    /\ (InitLacking \/ InitFaultsOnePartition \/ InitOptions \/ InitNumbers)

NextRerun == NextIngest \/ IngRerun

SpecRerun == InitRerun /\ [][NextRerun]_vars

\* the worker is a process that runs on: a step that can be taken is taken
SpecIngestLive == InitIngestLive /\ [][NextIngest]_vars /\ WF_vars(NextIngest)

-----------------------------------------------------------------------------
(* What the aggregation claims speak of *)

\* the rows the run handed to the store, in order
Emitted == Flatten(batches)
FirstEmitted == Flatten(firstBatches)

\* the rows flushed so far, written or still buffered
Flushed == Emitted \o buffer

\* the events the reader delivered whose ids are both non-empty
ValidIdx ==
    {i \in 1..Min(fetched, Len(events)) :
        normalizeId(events[i].user_id) # NoId /\ normalizeId(events[i].song_id) # NoId}

PairAt(i) == <<normalizeId(events[i].user_id), normalizeId(events[i].song_id)>>

\* the group of row r: the delivered events of its (userId, itemId) pair
GroupIdx(r) == {i \in ValidIdx : PairAt(i) = <<r.user_id, r.song_id>>}

KindIs(e, kind) ==
    ~e.event_type.isNull /\ ToLowerCase(Trim(e.event_type.chars)) = kind

KindCount(G, kind) == Cardinality({i \in G : KindIs(events[i], kind)})

DurationOrZero(e) ==
    IF e.play_duration.kind = "num" /\ e.play_duration.v >= 0
    THEN e.play_duration.v ELSE 0

RECURSIVE DurationSum(_)
DurationSum(G) ==
    IF G = {} THEN 0
    ELSE LET i == CHOOSE x \in G : TRUE
         IN DurationOrZero(events[i]) + DurationSum(G \ {i})

\* the reference duration of an item: its stored duration, 0 when unknown
RefDuration(songId) ==
    IF songId \in DOMAIN songs /\ songs[songId].kind = "num" /\ songs[songId].v > 0
    THEN songs[songId].v ELSE 0

(* C1: for a log delivered in (userId, itemId, occurredAt) order, a completed
   run emits exactly one record per distinct normalized (userId, itemId) pair
   that has an event with non-empty ids: as many records as pairs, no pair
   twice, wherever the page and batch boundaries fall. *)
C1_OneRecordPerPair ==
    aggPc = "done" =>
        /\ Len(Emitted) = Cardinality({PairAt(i) : i \in ValidIdx})
        /\ \A i, j \in 1..Len(Emitted) :
              i # j => <<Emitted[i].user_id, Emitted[i].song_id>>
                         # <<Emitted[j].user_id, Emitted[j].song_id>>

\* a group that spans two pages, between two other groups, one record per batch
C1_Witness ==
    /\ aggPc = "done"
    /\ pageSize = 1
    /\ batchSize = 1
    /\ Len(Emitted) = 2
    /\ Cardinality(ValidIdx) = 3
    /\ \E i \in 1..(Len(events) - 1) : /\ i \in ValidIdx
                                       /\ i + 1 \in ValidIdx
                                       /\ PairAt(i) = PairAt(i + 1)

(* C2: every emitted record's playCount, skipCount and completeCount are the
   numbers of events of its group whose trimmed, lower-cased kind is play,
   skip and complete, and its totalPlayDuration is the sum of the durations
   of all events of the group, a missing, non-numeric or negative duration
   counting 0. *)
C2_CountsAndTotal ==
    aggPc = "done" =>
        \A k \in 1..Len(Emitted) :
            LET r == Emitted[k]
                G == GroupIdx(r)
            IN /\ r.play_count = KindCount(G, PLAY)
               /\ r.skip_count = KindCount(G, SKIP)
               /\ r.complete_count = KindCount(G, COMPLETE)
               /\ r.total_play_duration = DurationSum(G)

\* a play without duration is counted, a pause adds only its duration
C2_Witness ==
    /\ aggPc = "done"
    /\ \E k \in 1..Len(Emitted) :
          /\ Emitted[k].play_count = 1
          /\ Emitted[k].total_play_duration = 30
          /\ \E i, j \in GroupIdx(Emitted[k]) :
                /\ events[i].event_type = TypePlay
                /\ events[i].play_duration = NumNull
                /\ events[j].event_type = TypePause
                /\ events[j].play_duration = Num(30)

(* C3: on flush, avgPlayDuration is totalPlayDuration / playCount rounded to
   the nearest integer when playCount > 0 and 0 when playCount = 0, and
   completionRate is totalPlayDuration / referenceDuration clamped to [0,1]
   when the item's reference duration is > 0 and 0 when it is 0 or unknown. *)
C3_DerivedFields ==
    \A k \in 1..Len(Flushed) :
        LET r == Flushed[k]
            p == r.play_count
            t == r.total_play_duration
            avg == r.avg_play_duration
            rate == r.completion_rate
            ref == RefDuration(r.song_id)
        IN /\ p > 0 => (2 * avg * p <= 2 * t + p /\ 2 * t + p < 2 * (avg + 1) * p)
           /\ p = 0 => avg = 0
           /\ rate[2] > 0
           /\ (ref > 0 /\ t <= ref) => rate[1] * ref = t * rate[2]
           /\ (ref > 0 /\ t > ref) => rate[1] = rate[2]
           /\ ref = 0 => rate[1] = 0

\* total 70 over 2 plays with reference 100: avg 35, rate 70/100
C3_Witness ==
    \E k \in 1..Len(Emitted) :
        /\ Emitted[k].play_count = 2
        /\ Emitted[k].total_play_duration = 70
        /\ Emitted[k].avg_play_duration = 35
        /\ Emitted[k].completion_rate = <<70, 100>>
        /\ RefDuration(Emitted[k].song_id) = 100

(* C4: every aggregation group produced by the aggregation script has
   0 <= completionRate <= 1 and avgPlayDuration >= 0, for every combination
   of kinds, durations and reference durations.  The Map-based script sets
   completionRate to completeCount / playCount, unclamped. *)
C4_RatesInRange ==
    /\ \A k \in 1..Len(Flushed) :
          /\ 0 <= Flushed[k].completion_rate[1]
          /\ Flushed[k].completion_rate[1] <= Flushed[k].completion_rate[2]
          /\ Flushed[k].avg_play_duration >= 0
    /\ \A k \in 1..Len(mapFeatures) :
          /\ 0 <= mapFeatures[k].completion_rate[1]
          /\ mapFeatures[k].completion_rate[1] <= mapFeatures[k].completion_rate[2]
          /\ mapFeatures[k].avg_play_duration[1] >= 0

\* the same bounds hold of every row the streaming aggregator flushes
StreamingRatesInRange ==
    \A k \in 1..Len(Flushed) :
        /\ 0 <= Flushed[k].completion_rate[1]
        /\ Flushed[k].completion_rate[1] <= Flushed[k].completion_rate[2]
        /\ Flushed[k].avg_play_duration >= 0

(* C5, as claimed: two runs over an unchanged log produce identical rows,
   every field included, updatedAt too. *)
C5_RerunIdentical ==
    (run = 2 /\ aggPc = "done") => Emitted = FirstEmitted

\* whether a group has an event with a parseable timestamp
HasTimestamp(r) == \E i \in GroupIdx(r) : events[i].ts.kind = "date"

\* a row without the fields that hold the time of the run
WithoutRunTime(r) ==
    [r EXCEPT !.updated_at = 0,
              !.last_played_at = IF HasTimestamp(r) THEN @ ELSE 0]

(* C5, amended: two runs over an unchanged log and catalog produce the same
   rows in the same order, equal in every field but updatedAt, which is the
   time of the run, and lastPlayedAt of a group none of whose events has a
   parseable timestamp, which falls back to updatedAt. *)
C5_RerunSameButRunTime ==
    (run = 2 /\ aggPc = "done") =>
        /\ Len(Emitted) = Len(FirstEmitted)
        /\ \A k \in 1..Len(Emitted) :
              WithoutRunTime(Emitted[k]) = WithoutRunTime(FirstEmitted[k])

\* a second run that ended later than the first
C5_Witness ==
    /\ run = 2
    /\ aggPc = "done"
    /\ Emitted # <<>>
    /\ Len(Emitted) = Len(FirstEmitted)
    /\ Emitted[1].updated_at # FirstEmitted[1].updated_at
    /\ Emitted[1].play_count > 0

(* C6: a completed run overwrites and never increments: the stored counts
   and total of every key the run wrote are those of the log's events of
   that key, whatever row the table held for the key before the run. *)
C6_OverwriteNotIncrement ==
    aggPc = "done" =>
        \A k \in 1..Len(Emitted) :
            LET r == Emitted[k]
                key == <<r.user_id, r.song_id>>
                G == GroupIdx(r)
            IN /\ key \in DOMAIN features
               /\ features[key].play_count = KindCount(G, PLAY)
               /\ features[key].skip_count = KindCount(G, SKIP)
               /\ features[key].complete_count = KindCount(G, COMPLETE)
               /\ features[key].total_play_duration = DurationSum(G)

\* a run that found a row of another content under the key it wrote
C6_Witness ==
    /\ aggPc = "done"
    /\ firstFeatures = StaleFeatures
    /\ \E k \in 1..Len(Emitted) :
          /\ Emitted[k].user_id = UserA
          /\ Emitted[k].song_id = SongC
          /\ features[<<UserA, SongC>>].play_count > 0
          /\ features[<<UserA, SongC>>].play_count # StaleRow.play_count

-----------------------------------------------------------------------------
(* What the ingestion claims speak of *)

\* the pages asked of partition g, in order
PagesOf(g) ==
    LET OfG(e) == e.genre = g
    IN SelectSeq(pageLog, OfG)

\* partition g was left after two empty pages in a row
Exhausted(g) ==
    LET ps == PagesOf(g)
    IN /\ Len(ps) >= 2
       /\ ps[Len(ps)].raw = 0
       /\ ps[Len(ps) - 1].raw = 0

\* the external ids handed to the store so far, in order
SubmittedIds == Flatten([i \in 1..Len(submitted) |-> submitted[i].ids])

\* the run has come to its end through main's last line
Completed == ingPc \in {"done", "exited"}

\* C7: once the cumulative upserted count has reached the target, no page is
\* fetched and no batch is handed to the store any more (the rest of the page's
\* batches and the remaining partitions are skipped); a run that ends below the
\* target has left every partition after two empty pages in a row.
C7_StopsAtTarget ==
    /\ [](totalUpserted >= target => ingPc \in {"batches", "while", "done", "exited"})
    /\ [][totalUpserted >= target =>
            /\ ingPc' # "fetch"
            /\ pageLog' = pageLog
            /\ attemptLog' = attemptLog
            /\ submitted' = submitted
            /\ songTable' = songTable
            /\ totalUpserted' = totalUpserted]_vars
    /\ [](Completed /\ totalUpserted < target =>
            \A g \in 1..Len(genres) : Exhausted(g))

\* a run that reached the target with a record of the page still to upsert and a
\* partition still to visit
C7_Witness ==
    /\ ingPc = "exited"
    /\ totalUpserted >= target
    /\ genreIdx < Len(genres)
    /\ \E id \in seenJamendoIds : \A i \in 1..Len(SubmittedIds) : SubmittedIds[i] # id

\* C8: a completed run exits with 0 exactly when the cumulative upserted count
\* is at least the target, and with 1 otherwise.
C8_ExitCode ==
    ingPc = "exited" =>
        /\ exitCode \in {0, 1}
        /\ (exitCode = 0 <=> totalUpserted >= target)
        /\ (exitCode = 1 <=> totalUpserted < target)

\* a run that ended with the count exactly at the target
C8_Witness ==
    /\ ingPc = "exited"
    /\ exitCode = 0
    /\ totalUpserted = target
    /\ Len(pageLog) >= 2

\* the record carries an external id, a title, an artist and an audio URL
HasRequired(t) ==
    \A v \in {t.id, t.name, t.artist_name, t.audio} : ~v.isNull /\ Len(v.chars) > 0

\* the places of the page whose record carries the required fields and whose
\* external id was not met before, neither in the run nor earlier in the page
ExpectedIdx(ts, seen) ==
    {i \in 1..Len(ts) :
        /\ HasRequired(ts[i])
        /\ ts[i].id.chars \notin seen
        /\ \A j \in 1..(i - 1) : ~(HasRequired(ts[j]) /\ ts[j].id = ts[i].id)}

TrackKey(t) == <<t.id.chars, t.name.chars, t.artist_name.chars, t.audio.chars>>
RowKey(r) == <<r.jamendo_id, r.title, r.artist, r.audio_url>>

\* the records of the places I of ts, in the order of ts
Pick(ts, I) ==
    LET F[i \in 0..Len(ts)] ==
            IF i = 0 THEN <<>>
            ELSE IF i \in I THEN Append(F[i - 1], TrackKey(ts[i]))
            ELSE F[i - 1]
    IN F[Len(ts)]

ExpectedKeys == Pick(tracks, ExpectedIdx(tracks, seenBefore))
SubmittedKeys == [i \in 1..Len(pageSubmitted) |-> RowKey(pageSubmitted[i])]

\* the run is done with the page it fetched last
PageSettled == ingPc \in {"while", "done", "exited"} /\ pageLog # <<>>

NoIdTwice ==
    \A i, j \in 1..Len(SubmittedIds) : i # j => SubmittedIds[i] # SubmittedIds[j]

\* C9 as stated: the records handed to the store for a page are exactly the
\* page's records that normalize and whose external id was not seen earlier in
\* the run, in page order; no external id is handed to the store twice in a run.
C9_SubmittedExactly ==
    /\ NoIdTwice
    /\ (PageSettled => SubmittedKeys = ExpectedKeys)

\* C9: the records handed to the store for a page are, in page order, the
\* leading batches of the page's records that normalize and whose external id
\* was not seen earlier in the run: at least the first batch, and all of them
\* unless the target is reached before the last batch; no external id is handed
\* to the store twice in a run, and a dropped record keeps no other record back.
C9_SubmittedUntilTarget ==
    /\ NoIdTwice
    /\ LET n == Len(SubmittedKeys)
       IN /\ (ingPc = "batches" \/ PageSettled) =>
                /\ n <= Len(ExpectedKeys)
                /\ SubmittedKeys = SubSeq(ExpectedKeys, 1, n)
          /\ PageSettled =>
                /\ (ExpectedKeys # <<>> => n >= 1)
                /\ \/ n = Len(ExpectedKeys)
                   \/ totalUpserted >= target /\ n % ingBatchSize = 0

\* a page of which one record was dropped and the other handed to the store,
\* after a page that had made an external id known
C9_Witness ==
    /\ PageSettled
    /\ seenBefore # {}
    /\ Len(tracks) = 2
    /\ Len(SubmittedKeys) = 1
    /\ ExpectedKeys = SubmittedKeys
    /\ \E i \in 1..Len(tracks) : ~HasRequired(tracks[i]) \/ tracks[i].id.chars \in seenBefore

\* every attempt at the current page failed
PageFailed == attemptLog # <<>> /\ \A i \in 1..Len(attemptLog) : ~attemptLog[i]

\* at most 4 attempts at a page; the attempt that succeeds is the last one and
\* its result is the page; 4 failures give the empty page; the run is fatal only
\* for a missing client id
RetryCeiling ==
    /\ Len(attemptLog) <= 4
    /\ \A i \in 1..(Len(attemptLog) - 1) : ~attemptLog[i]
    /\ ingPc = "fetch" => PageFailed \/ attemptLog = <<>>
    /\ ingPc = "page" =>
          /\ attemptLog # <<>>
          /\ IF attemptLog[Len(attemptLog)]
             THEN /\ tracks = PageOf(genreIdx, ingOffset)
                  /\ ~pageLog[Len(pageLog)].failed
             ELSE /\ Len(attemptLog) = 4
                  /\ tracks = <<>>
                  /\ pageLog[Len(pageLog)].failed
    /\ ingPc = "fatal" => ~clientIdSet /\ pageLog = <<>>

\* C10 as stated: a page fetch is attempted at most 4 times, a success is used
\* without a further attempt, and after 4 failures the page counts as empty, no
\* error is propagated and the run goes on with the next offset.
C10_FailedPageNextOffset ==
    /\ []RetryCeiling
    /\ [][ingPc = "page" /\ PageFailed =>
            /\ ingPc' = "while"
            /\ genreIdx' = genreIdx
            /\ ingOffset' = ingOffset + ingLimit]_vars

\* C10: a page fetch is attempted at most 4 times, a success is used without a
\* further attempt, and after 4 failures the page counts as empty and no error
\* is propagated: the run goes on with the next offset, unless the page before
\* it in the partition was empty too, in which case the partition is left (the
\* next partition is entered, or the run ends through its exit code).
C10_FailedPageAsEmpty ==
    /\ []RetryCeiling
    /\ [][ingPc = "page" /\ PageFailed =>
            /\ totalUpserted' = totalUpserted
            /\ submitted' = submitted
            /\ exitCode' = exitCode
            /\ IF emptyPagesInARow = 0
               THEN /\ ingPc' = "while"
                    /\ genreIdx' = genreIdx
                    /\ ingOffset' = ingOffset + ingLimit
               ELSE IF genreIdx < Len(genres)
               THEN /\ ingPc' = "while"
                    /\ genreIdx' = genreIdx + 1
                    /\ ingOffset' = startOffset
               ELSE ingPc' = "done"]_vars

\* a page that failed 4 times, followed by the page at the next offset, whose
\* records were upserted
C10_Witness ==
    /\ totalUpserted > 0
    /\ \E i \in 1..(Len(pageLog) - 1) :
          /\ pageLog[i].failed
          /\ pageLog[i + 1].genre = pageLog[i].genre
          /\ pageLog[i + 1].offset = pageLog[i].offset + ingLimit
          /\ ~pageLog[i + 1].failed
          /\ pageLog[i + 1].raw > 0
          /\ \E k \in 1..Len(submitted) :
                submitted[k].ok /\ submitted[k].offset = pageLog[i + 1].offset
                                /\ submitted[k].genre = pageLog[i + 1].genre

\* C11: a partition is left for the next one (or for the end of the run) on the
\* page that is the second of two pages in a row without a raw record, a page
\* that failed after all retries counting as such, and on no other page; one
\* empty page leaves the count at 1, and a page with a raw record puts it back
\* to 0, also when every record of the page is dropped.
C11_TwoEmptyPages ==
    [][/\ genreIdx' # genreIdx => ingPc = "page"
       /\ ingPc = "page" =>
            LET ps == PagesOf(genreIdx)
                n == Len(ps)
                twoEmpty == n >= 2 /\ ps[n].raw = 0 /\ ps[n - 1].raw = 0
                left == genreIdx' # genreIdx \/ ingPc' = "done"
            IN /\ left <=> twoEmpty
               /\ ~left => emptyPagesInARow' = (IF ps[n].raw = 0 THEN 1 ELSE 0)
               /\ ~left /\ ps[n].raw > 0
                        /\ Pick(tracks, ExpectedIdx(tracks, seenJamendoIds)) = <<>> =>
                     emptyPagesInARow' = 0 /\ ingPc' = "while"]_vars

\* a partition left after two empty pages, in which an empty page had been
\* followed by a page with records, and a page all of whose records were dropped
C11_Witness ==
    /\ Completed
    /\ \E g \in 1..Len(genres) :
          LET ps == PagesOf(g)
          IN /\ Exhausted(g)
             /\ \E i \in 1..(Len(ps) - 1) : ps[i].raw = 0 /\ ps[i + 1].raw > 0
    /\ \E e \in {pageLog[i] : i \in 1..Len(pageLog)} :
          /\ e.raw > 0
          /\ \A k \in 1..Len(submitted) :
                ~(submitted[k].genre = e.genre /\ submitted[k].offset = e.offset)

\* C12: the offsets asked of the catalogue within a partition are startOffset,
\* startOffset + L, startOffset + 2L, ... without gap or repeat, whatever became
\* of each page (fetched, failed after the retries, all records dropped, batches
\* rejected); the attempts at one page ask for the same offset; the partitions
\* are visited in order and each starts at startOffset.
C12_OffsetsAdvanceByLimit ==
    /\ \A g \in 1..Len(genres) :
          LET ps == PagesOf(g)
          IN \A i \in 1..Len(ps) : ps[i].offset = startOffset + (i - 1) * ingLimit
    /\ \A i \in 1..(Len(pageLog) - 1) : pageLog[i].genre <= pageLog[i + 1].genre
    /\ ingPc = "fetch" =>
          ingOffset = startOffset + Len(PagesOf(genreIdx)) * ingLimit
    /\ ingPc = "page" =>
          /\ pageLog[Len(pageLog)].genre = genreIdx
          /\ pageLog[Len(pageLog)].offset = ingOffset

\* a second partition of which three pages of two records were asked, in a run
\* with a page that failed and a batch that was rejected
C12_Witness ==
    /\ Len(genres) >= 2
    /\ Len(PagesOf(2)) >= 3
    /\ ingLimit >= 2
    /\ \E i \in 1..Len(pageLog) : pageLog[i].failed /\ pageLog[i].genre = 2
    /\ \E k \in 1..Len(submitted) : ~submitted[k].ok

\* the rows the store reported for the batches it took
RECURSIVE SumOfOk(_)
SumOfOk(bs) ==
    IF bs = <<>> THEN 0
    ELSE (IF Head(bs).ok THEN Len(Head(bs).ids) ELSE 0) + SumOfOk(Tail(bs))

\* this step hands a batch to the store, which rejects it
BatchRejected ==
    /\ Len(submitted') = Len(submitted) + 1
    /\ ~submitted'[Len(submitted')].ok

\* C13: a batch the store rejects leaves the cumulative count and the table as
\* they were and is not handed to the store again; the batches that follow it
\* in the page and the pages that follow are still attempted; the count is at
\* all times the sum of what the store reported for the batches it took; the
\* external ids of a rejected batch are never handed to the store again.
C13_RejectedBatchSkipped ==
    /\ [](totalUpserted = SumOfOk(submitted))
    /\ []NoIdTwice
    /\ [][BatchRejected =>
            /\ totalUpserted' = totalUpserted
            /\ songTable' = songTable
            /\ pending' = Tail(pending)
            /\ ingPc' = "batches"
            /\ totalUpserted' < target]_vars
    /\ [][ingPc = "batches" /\ pending # <<>> /\ totalUpserted < target =>
            /\ Len(submitted') = Len(submitted) + 1
            /\ submitted'[Len(submitted')].ids
                   = [i \in 1..Len(Head(pending)) |-> Head(pending)[i].jamendo_id]]_vars
    /\ [][ingPc = "while" /\ totalUpserted < target => ingPc' = "fetch"]_vars

\* a run in which a batch of the first partition was rejected, a record of it
\* came back in the second partition, and a later batch was taken by the store
C13_Witness ==
    /\ Completed
    /\ Len(genres) >= 2
    /\ \E k, m \in 1..Len(submitted) :
          /\ k < m
          /\ ~submitted[k].ok
          /\ submitted[k].genre = 1
          /\ submitted[m].ok
          /\ submitted[m].genre = 2
          /\ \E i \in 1..Len(catalog[2]) : catalog[2][i].id.chars = submitted[k].ids[1]
          /\ \E i \in 1..Len(pageLog) : pageLog[i].genre = 2 /\ pageLog[i].raw > 0

\* every record carries the required fields and an external id of its own
UniqueValid(ts) ==
    /\ \A i \in 1..Len(ts) : HasRequired(ts[i])
    /\ \A i, j \in 1..Len(ts) : i # j => ts[i].id # ts[j].id

\* the records the one partition serves from startOffset on
Served == Max(0, Len(catalog[1]) - startOffset)

\* one partition of fewer than target records, all valid and different, and
\* neither the API nor the store fails
ShortCatalog ==
    /\ clientIdSet
    /\ storeCredsSet
    /\ ~faulty
    /\ Len(genres) = 1
    /\ UniqueValid(catalog[1])
    /\ Served < target

\* the offsets of the pages asked for, in order
OffsetsAsked == [i \in 1..Len(pageLog) |-> pageLog[i].offset]

\* the pages that hold the n records, and the two empty pages after them
OffsetsOfShortRun ==
    LET full == (Served + ingLimit - 1) \div ingLimit
    IN [i \in 1..(full + 2) |-> startOffset + (i - 1) * ingLimit]

\* C14: a run over one partition of n < T valid records with ids of their own,
\* followed by empty pages only, without any failure, comes to its end having
\* upserted exactly n records and exits with 1 (target not met), after asking
\* for the pages that hold the records and two empty pages (with T = 50, L = 20
\* and 30 records: offsets 0, 20, 40, 60 and 30 records upserted).
C14_ShortCatalogEnds ==
    (ShortCatalog /\ ingPc = "start") ~>
        (/\ ingPc = "exited"
         /\ exitCode = 1
         /\ totalUpserted = Served
         /\ Cardinality(DOMAIN songTable) = Served
         /\ OffsetsAsked = OffsetsOfShortRun)

\* the run with T = 50, L = 20 and 30 records at its end
C14_Witness ==
    /\ ShortCatalog
    /\ target = 50
    /\ ingLimit = 20
    /\ Len(catalog[1]) = 30
    /\ ingPc = "exited"
    /\ exitCode = 1
    /\ totalUpserted = 30
    /\ OffsetsAsked = <<0, 20, 40, 60>>

\* a request has gone to the catalogue API
CatalogAsked == attemptLog # <<>> \/ pageLog # <<>>

\* a request has gone to the store
StoreAsked == \E i \in 1..Len(submitted) : submitted[i].sent

\* C15: an ingestion run that lacks the catalogue client id or a credential of
\* the store ends with a fatal error and has sent no request, neither to the
\* catalogue API nor to the store. (The aggregation script creates its store
\* client in the first statement of main, before any request.)
C15_ConfigurationFatal ==
    ~clientIdSet \/ ~storeCredsSet =>
        /\ ~CatalogAsked
        /\ ~StoreAsked
        /\ ingPc \in {"idle", "start", "fatal"}
        /\ ingPc = "fatal" => exitCode = 1

\* C16: whatever the raw records hold, every row that reaches the store has a
\* jamendo_id, a title, an artist and an audio_url that are not empty, a
\* duration >= 0 and a popularity >= 0.
C16_UpsertedTracksValid ==
    \A k \in DOMAIN songTable :
        LET row == songTable[k]
        IN /\ row.jamendo_id # <<>>
           /\ row.title # <<>>
           /\ row.artist # <<>>
           /\ row.audio_url # <<>>
           /\ row.duration >= 0
           /\ row.popularity >= 0

\* the external ids of the batches the store has taken, in any run
UpsertedEver == UNION {{submitted[i].ids[j] : j \in 1..Len(submitted[i].ids)} :
                          i \in {n \in 1..Len(submitted) : submitted[n].ok}}

\* C17: however often the ingestion is run against the same catalogue, the
\* `songs` table holds one row per external id, as many rows as there are
\* different external ids among the batches the store ever took; and a run
\* that follows a run without failures over the same records adds no row.
C17_RerunAddsNoRow ==
    /\ \A k \in DOMAIN songTable : songTable[k].jamendo_id = k
    /\ DOMAIN songTable = UpsertedEver
    /\ Cardinality(DOMAIN songTable) = Cardinality(UpsertedEver)
    /\ ingRun >= 2 /\ ~faulty /\ storeCredsSet => DOMAIN songTable = DOMAIN tableBefore

\* a second run has upserted the two records the first run had upserted
C17_Witness ==
    /\ ingRun = 2
    /\ ingPc = "exited"
    /\ ~faulty
    /\ totalUpserted = 2
    /\ Cardinality(DOMAIN tableBefore) = 2
    /\ Cardinality(DOMAIN songTable) = 2
    /\ \E k \in DOMAIN songTable : songTable[k].id # tableBefore[k].id

\* C18: every flushed record is handed to the store once: the buffer never
\* stays at batchSize records (the batch is written at once and the buffer is
\* empty again), every batch written holds between 1 and batchSize records and
\* every batch but the last exactly batchSize, the flushed records are the
\* written ones followed by the buffered ones, no pair among them twice, and
\* when the aggregator has returned nothing is open or buffered and the rows
\* written are as many as the aggregated records.
C18_FlushedWrittenOnce ==
    /\ Len(buffer) < batchSize
    /\ \A i \in 1..Len(batches) :
          /\ Len(batches[i]) >= 1
          /\ Len(batches[i]) <= batchSize
          /\ i < Len(batches) => Len(batches[i]) = batchSize
    /\ Len(Flushed) = aggregatedRecords
    /\ \A i, j \in 1..Len(Flushed) :
          i # j => <<Flushed[i].user_id, Flushed[i].song_id>>
                     # <<Flushed[j].user_id, Flushed[j].song_id>>
    /\ aggPc = "done" =>
          /\ ~current.open
          /\ buffer = <<>>
          /\ Len(Emitted) = aggregatedRecords
          /\ totalUpsertsAttempted = aggregatedRecords

\* three pairs with a batch size of two: a full batch, then the rest
C18_Witness ==
    /\ aggPc = "done"
    /\ batchSize = 2
    /\ Len(batches) = 2
    /\ Len(batches[1]) = 2
    /\ Len(batches[2]) = 1
    /\ aggregatedRecords = 3

\* nothing to aggregate: the log is empty, or --limit 0 is given
NothingToRead == events = <<>> \/ limit = 0

\* C19: over an empty event log, or with a limit of 0, an aggregation run makes
\* no feature record and writes nothing to the store, and it raises no error:
\* unless the store fails a read, the reader ends at its first step and the
\* aggregator returns.
C19_EmptyLogNoWrites ==
    /\ [](NothingToRead =>
            /\ batches = <<>>
            /\ buffer = <<>>
            /\ ~current.open
            /\ page = <<>>
            /\ processedEvents = 0
            /\ aggregatedRecords = 0
            /\ totalUpsertsAttempted = 0
            /\ mapFeatures = <<>>
            /\ features = firstFeatures)
    /\ [][NothingToRead /\ aggPc = "fetch" /\ ~ReadFails =>
            aggPc' \in {"drain", "mapdone"}]_vars
    /\ [][NothingToRead /\ aggPc = "drain" => aggPc' = "done"]_vars

\* a run with --limit 0 over a log that holds events, and a table that holds rows
C19_Witness ==
    /\ aggPc = "done"
    /\ limit = 0
    /\ events # <<>>
    /\ features # NoFeatures
    /\ batches = <<>>

\* what the reader has to yield: the whole log, or its first `limit` events
ToYield == IF limit = NoLimit THEN Len(events) ELSE Min(limit, Len(events))

\* C20: the Event Reader comes to an end over every log: a request asks for
\* at most min(pageSize, limit - fetched) rows, the offset grows by the rows
\* received (at least one), the reader ends at the first empty page (or short
\* page, or at the limit) and asks no more, and with a limit N it yields at
\* most N events, in all the first min(N, size of the log) events of the log
\* in its order.
C20_ReaderTerminates ==
    /\ [](/\ offset = fetched
          /\ offset + Len(page) <= ToYield
          /\ page = SubSeq(events, offset + 1, offset + Len(page))
          /\ aggPc \in {"drain", "done"} => offset = ToYield)
    /\ [][aggPc = "fetch" /\ aggPc' = "page" =>
            /\ take' <= pageSize
            /\ limit # NoLimit => take' = Min(pageSize, limit - fetched)
            /\ limit = NoLimit => take' = pageSize
            /\ Len(page') >= 1
            /\ Len(page') <= take'
            /\ offset' = offset]_vars
    /\ [][aggPc = "fetch" /\ aggPc' = "drain" =>
            \/ limit # NoLimit /\ fetched >= limit /\ take' = take
            \/ offset >= Len(events) /\ take' >= 1]_vars
    /\ [][aggPc = "page" /\ aggPc' \in {"fetch", "drain"} =>
            /\ offset' = offset + Len(page)
            /\ offset' > offset
            /\ fetched' = fetched + Len(page)
            /\ aggPc' = "drain" <=> Len(page) < take]_vars
    /\ [][aggPc = "drain" => aggPc' \in {"drain", "done", "failed"}]_vars
    /\ (aggPc = "fetch" ~> aggPc \in {"drain", "failed", "mapdone"})

\* a limit of 3 over a log of 3 events read in pages of 2: a page of 2, a
\* page of 1, and the end
C20_Witness ==
    /\ aggPc = "drain"
    /\ limit = 3
    /\ pageSize = 2
    /\ Len(events) = 3
    /\ take = 1
    /\ offset = 3
    /\ fetched = 3

\* how often e occurs in seq
Occurrences(seq, e) == Cardinality({i \in 1..Len(seq) : seq[i] = e})

\* C21: when the log is read without a limit, the pages the reader yields are
\* in non-decreasing order of (user_id, song_id, timestamp), and once the
\* reader has ended they hold every event of the log exactly as often as the
\* log does, also when events are equal in (user_id, song_id, timestamp) and
\* every page is a range query of its own.
C21_EveryEventOnce ==
    limit = NoLimit =>
        /\ \A i \in 1..(Len(yielded) - 1) : EventLeq(yielded[i], yielded[i + 1])
        /\ aggPc \in {"drain", "done"} =>
              /\ Len(yielded) = Len(events)
              /\ \A i \in 1..Len(events) :
                    Occurrences(yielded, events[i]) = Occurrences(events, events[i])

\* onBatch has been handed a batch and the store has rejected it
FeatureBatchRejected ==
    /\ Len(batches') = Len(batches) + 1
    /\ totalUpsertsAttempted' = totalUpsertsAttempted

\* C22: a feature batch the store rejects is skipped: the run is not aborted
\* by it, goes on to write the batches that follow and ends without an error.
C22_RejectedFeatureBatchSkipped ==
    [][FeatureBatchRejected => aggPc' # "failed"]_vars

\* the song ids of the pages hydrated so far in this run
HydratedIds ==
    {normalizeId(yielded[i].song_id) : i \in 1..Len(yielded)} \ {NoId}

\* the ids sent to the store in the lookups of this run, in order
LookedUp == Flatten(lookups)

\* C23: once a page has been hydrated every song id of it has a cache entry,
\* the stored duration made non-negative or 0 when the store has no such song;
\* an id is sent to the store in at most one lookup of a run, and only ids
\* that were not cached are sent; a lookup carries at most 500 ids (the id
\* lists are cut by chunk, which gives parts of at most the size asked for);
\* and an entry of the cache is never changed during the run.
C23_DurationCache ==
    /\ [](/\ DOMAIN songDurationCache = HydratedIds
          /\ \A id \in HydratedIds :
                songDurationCache[id] =
                    (IF id \in DOMAIN songs THEN toNonNegativeNumber(songs[id]) ELSE 0)
          /\ \A i, j \in 1..Len(LookedUp) : i # j => LookedUp[i] # LookedUp[j]
          /\ {LookedUp[i] : i \in 1..Len(LookedUp)} = HydratedIds
          /\ \A i \in 1..Len(lookups) : Len(lookups[i]) \in 1..LookupChunk
          /\ \A size \in 1..MaxBatchSize :
                LET parts == chunk(LookedUp, size)
                IN /\ Flatten(parts) = LookedUp
                   /\ \A k \in 1..Len(parts) : Len(parts[k]) \in 1..size)
    /\ [][run' = run =>
            /\ \A id \in DOMAIN songDurationCache :
                  /\ id \in DOMAIN songDurationCache'
                  /\ songDurationCache'[id] = songDurationCache[id]
            /\ \A i \in (Len(lookups) + 1)..Len(lookups') :
                  \A k \in 1..Len(lookups'[i]) :
                      lookups'[i][k] \notin DOMAIN songDurationCache]_vars

\* three pages of one event: two lookups, one of them for a song the store
\* does not know, and a page whose song was cached
C23_Witness ==
    /\ aggPc = "done"
    /\ pageSize = 1
    /\ Len(yielded) = 3
    /\ Len(lookups) = 2
    /\ \E id \in DOMAIN songDurationCache :
          id \notin DOMAIN songs /\ songDurationCache[id] = 0
    /\ \E id \in DOMAIN songDurationCache :
          id \in DOMAIN songs /\ songDurationCache[id] > 0

\* the genre string main reads: --genres, else JAMENDO_GENRES, else ""
GenreStringGiven ==
    IF ~genreArgs[1].isNull THEN genreArgs[1].chars
    ELSE IF ~genreArgs[2].isNull THEN genreArgs[2].chars
    ELSE <<>>

\* the string holds no tag: nothing but blanks and separators
NoTagGiven == \A i \in 1..Len(GenreStringGiven) : GenreStringGiven[i] \in {" ", ","}

\* C24: when the genre string holds no tag (not given, empty, blank, or
\* separators and blank entries only) the run goes through exactly one
\* partition, the one without a tag filter.
C24_NoTagOnePartition ==
    NoTagGiven /\ clientIdSet /\ ingPc # "start" =>
        /\ genres = <<JsNull>>
        /\ genreIdx = 1
        /\ Completed => pageLog # <<>> /\ \A i \in 1..Len(pageLog) : pageLog[i].genre = 1

\* the event at position i of the page lacks a user id or a song id
LacksId(i) ==
    normalizeId(page[i].user_id) = NoId \/ normalizeId(page[i].song_id) = NoId

\* C25: an event whose user id or song id is missing, or empty once trimmed,
\* is passed over: the open accumulator and its key, the buffer, the count of
\* processed events, the count of records and what has been written stay as
\* they are, nothing is flushed, and the loop goes on with the next event.
C25_SkippedEventNoEffect ==
    [][aggPc = "page" /\ pageIdx <= Len(page) /\ LacksId(pageIdx) =>
          /\ current' = current
          /\ currentKey' = currentKey
          /\ buffer' = buffer
          /\ processedEvents' = processedEvents
          /\ aggregatedRecords' = aggregatedRecords
          /\ batches' = batches
          /\ features' = features
          /\ totalUpsertsAttempted' = totalUpsertsAttempted
          /\ pageIdx' = pageIdx + 1
          /\ aggPc' = "page"]_vars

\* an event without an id has been passed over while a group was open
C25_Witness ==
    /\ aggPc = "page"
    /\ pageIdx >= 2
    /\ pageIdx <= Len(page) + 1
    /\ LacksId(pageIdx - 1)
    /\ current.open
    /\ processedEvents >= 1

\* the pairs of the rows of seq
PairsOf(seq) == {<<seq[i].user_id, seq[i].song_id>> : i \in 1..Len(seq)}

\* C26: the aggregator holds one accumulator at most, the one of the key it
\* has seen last; once an event has been processed the buffer holds fewer
\* than batchSize records; neither the buffer nor the accumulator holds a
\* group that has been written, nor the accumulator one that is buffered; so
\* the state holds at most batchSize + 1 records (the buffer and the open
\* accumulator) whatever the length of the log.
C26_BoundedState ==
    /\ current.open <=> currentKey # NoKey
    /\ current.open => currentKey = KeyOf(current.user_id, current.song_id)
    /\ ~current.open => current = NoCurrent
    /\ Len(buffer) < batchSize
    /\ Len(buffer) + (IF current.open THEN 1 ELSE 0) <= batchSize + 1
    /\ Cardinality(PairsOf(buffer)) = Len(buffer)
    /\ PairsOf(buffer) \cap PairsOf(Emitted) = {}
    /\ current.open => <<current.user_id, current.song_id>> \notin PairsOf(Flushed)

\* a third group is open after a batch of two has been written
C26_Witness ==
    /\ batchSize = 2
    /\ Len(batches) = 1
    /\ Len(batches[1]) = 2
    /\ buffer = <<>>
    /\ current.open
    /\ Len(events) = 3
    /\ aggPc = "page"

\* the greatest parseable timestamp among the events of G
MaxParseable(G) ==
    LET T == {parseTimestampMs(events[i].ts) : i \in {j \in G : events[j].ts.kind = "date"}}
    IN CHOOSE m \in T : \A t \in T : t <= m

(* C27: for every group that has an event with a parseable timestamp, the
   emitted lastPlayedAt is the greatest parseable timestamp among the
   group's events, whatever the order of the events inside the group; an
   event with an unparseable timestamp does not change it and is still
   counted. *)
C27_LastPlayedIsMax ==
    aggPc = "done" =>
        \A k \in 1..Len(Emitted) :
            LET r == Emitted[k]
                G == GroupIdx(r)
            IN /\ HasTimestamp(r) => r.last_played_at = MaxParseable(G)
               /\ r.play_count + r.skip_count + r.complete_count
                    = KindCount(G, PLAY) + KindCount(G, SKIP) + KindCount(G, COMPLETE)
               /\ r.play_count = Cardinality({i \in G : events[i].event_type = TypePlay})

\* the latest event comes first, an event without a timestamp in the middle
C27_Witness ==
    /\ aggPc = "done"
    /\ run = 1
    /\ Len(events) = 3
    /\ events[1].ts = TsDate(2)
    /\ events[2].ts = TsNull
    /\ events[3].ts = TsDate(1)
    /\ Len(Emitted) = 1
    /\ Emitted[1].last_played_at = 2
    /\ Emitted[1].play_count = 3

\* the failed attempts at the current page
FailedAttempts == Cardinality({i \in 1..Len(attemptLog) : ~attemptLog[i]})

(* C28: the wait after failed attempt k (k = 1..3) of a page fetch is
   min(10000, 800 * 2^(k-1)) ms plus a jitter in [0, 250) ms; for every
   choice of jitter the successive waits strictly increase, no wait exceeds
   10249 ms, and no wait is taken after the 4th failed attempt. *)
C28_Backoff ==
    /\ Len(waits) = IF FailedAttempts = 4 THEN 3 ELSE FailedAttempts
    /\ \A k \in 1..Len(waits) :
          /\ k \in 1..3
          /\ \E j \in 0..249 : waits[k] = Min(10000, 800 * 2 ^ (k - 1)) + j
          /\ waits[k] <= 10249
    /\ \A k \in 1..(Len(waits) - 1) : waits[k] < waits[k + 1]

\* four failed attempts, the greatest jitter before the smallest one
C28_Witness ==
    /\ FailedAttempts = 4
    /\ ingPc = "page"
    /\ waits = <<1049, 1600, 3449>>

\* the run has left the loops for good
Ended == ingPc \in {"exited", "fatal"}

\* a page or a batch failed during the run
SomeFailure ==
    /\ \E i \in 1..Len(pageLog) : pageLog[i].failed
    /\ \E i \in 1..Len(submitted) : ~submitted[i].ok

(* C29: the ingestion run terminates for every finite catalog: when in each
   partition all pages beyond some offset are empty, the run reaches its exit
   under any pattern of fetch failures and batch write failures. *)
C29_FiniteCatalogTerminates ==
    /\ (~endless /\ ingPc = "start") ~> Ended
    /\ [](~endless /\ ingPc = "while" /\ ~TargetReached(totalUpserted, target)
            => Len(pageLog) < MaxPages)

\* a run that ended after a failed page and a failed batch
C29_Witness ==
    /\ ~endless
    /\ ingPc = "exited"
    /\ SomeFailure

(* C30: the ingestion run also terminates when the catalog never returns an
   empty page: a partition whose pages keep returning only already-seen or
   invalid records, or whose every batch write fails, is abandoned in the end
   and the run exits. *)
C30_EndlessCatalogTerminates ==
    (endless /\ ingPc = "start") ~> Ended

\* in a catalogue without end no page is counted as empty and the partition
\* is not left below the target: the run goes on, page after page
EndlessPartitionKept ==
    endless /\ ~TargetReached(totalUpserted, target)
        => /\ emptyPagesInARow = 0
           /\ ingPc \notin {"done", "exited"}
           /\ genreIdx = 1

\* the upserted count has stopped below the target: every record of the
\* catalogue is already seen or invalid, pages are still being fetched
C30_Witness ==
    /\ endless
    /\ ~TargetReached(totalUpserted, target)
    /\ ingPc = "page"
    /\ Len(pageLog) = MaxPages
    /\ ingOffset < Len(catalog[1])
    /\ tracks # <<>>
    /\ \A i \in 1..Len(tracks) :
          ~Normalizes(tracks[i]) \/ tracks[i].id.chars \in seenJamendoIds

(* C31: provided the store never reports more rows than the batch it was
   given, the cumulative upserted count is below the target before every
   batch upsert and therefore below target + batch size at the end of every
   run, for every target, page size and batch size of the clamped ranges. *)
C31_OvershootBound ==
    /\ [][submitted' # submitted => totalUpserted < target]_vars
    /\ [](totalUpserted < target + ingBatchSize)
    /\ [](ingLimit \in 1..OptionCap /\ ingBatchSize \in 1..OptionCap /\ target >= 1)

\* a run that ended as far above its target as a batch can take it
C31_Witness ==
    /\ ingPc = "exited"
    /\ ingBatchSize >= 2
    /\ totalUpserted = target + ingBatchSize - 1
    /\ \E i \in 1..Len(submitted) : submitted[i].ok /\ Len(submitted[i].ids) = ingBatchSize

(* C32: re-ingesting a catalog record whose externalId is already stored
   leaves the internal id of the stored row unchanged, so that the id events
   reference stays the same across ingestion runs. *)
C32_StoredIdKept ==
    [][\A k \in DOMAIN songTable \cap DOMAIN songTable' :
           songTable'[k].id = songTable[k].id]_vars

\* the events of the page in hand that are still to be aggregated
PageRest == {i \in 1..Len(page) : i >= pageIdx}

(* C33: whenever a group is flushed the Duration Cache already holds an entry
   for the group's itemId: the page of each of its events was hydrated before
   any of its events was aggregated and no entry is evicted, also for a group
   that started on an earlier page than the one on which it is flushed. *)
C33_CachedBeforeFlush ==
    /\ [](/\ current.open => current.song_id \in DOMAIN songDurationCache
          /\ aggPc = "page" =>
                \A i \in PageRest :
                    normalizeId(page[i].song_id) # NoId
                        => normalizeId(page[i].song_id) \in DOMAIN songDurationCache)
    /\ [][aggregatedRecords' > aggregatedRecords =>
            /\ current.open
            /\ current.song_id \in DOMAIN songDurationCache
            /\ current.song_id \in DOMAIN songDurationCache']_vars

\* a group of two events read on two pages is flushed on the third page, by
\* the first event of another item
C33_Witness ==
    /\ pageSize = 1
    /\ Len(events) = 3
    /\ offset = 3
    /\ Len(Flushed) = 1
    /\ Flushed[1].play_count = 2
    /\ current.open
    /\ current.song_id # Flushed[1].song_id
    /\ Flushed[1].song_id \in DOMAIN songDurationCache

\* the order of the log on the pairs of two rows
PairBefore(r1, r2) ==
    LET u == LexCmp(r1.user_id, r2.user_id)
    IN u < 0 \/ (u = 0 /\ LexCmp(r1.song_id, r2.song_id) < 0)

\* the keys of the rows of a batch
BatchKeys(b) == {<<b[i].user_id, b[i].song_id>> : i \in 1..Len(b)}

(* C34: for sorted input the feature records are flushed in strictly
   increasing (userId, itemId) order, so no batch handed to the store holds
   two rows with the same (userId, itemId) key and no key is in two batches
   of one run. *)
C34_FlushedInOrder ==
    /\ \A i, j \in 1..Len(Flushed) : i < j => PairBefore(Flushed[i], Flushed[j])
    /\ \A k \in 1..Len(batches) : Cardinality(BatchKeys(batches[k])) = Len(batches[k])
    /\ \A k, l \in 1..Len(batches) :
          k # l => BatchKeys(batches[k]) \cap BatchKeys(batches[l]) = {}

\* three groups written in two batches
C34_Witness ==
    /\ aggPc = "done"
    /\ batchSize = 2
    /\ Len(batches) = 2
    /\ Len(batches[1]) = 2
    /\ Len(batches[2]) = 1
    /\ batches[1][1].user_id = batches[1][2].user_id

\* the rows that were in the log when the run started
InLogAtStart == {i \in 1..Len(events) : i \notin LoggedIdx}

(* C35: when events are appended to the log while an aggregation run is
   between two page requests, every event that was in the log when the run
   started is still aggregated exactly once: none is read twice or skipped
   because the offsets of the later range queries have shifted. *)
C35_LogAtStartReadOnce ==
    limit = NoLimit /\ aggPc \in {"drain", "done"} =>
        \A i \in InLogAtStart :
            Occurrences(yielded, events[i])
                = Cardinality({j \in InLogAtStart : events[j] = events[i]})

\* the rows r and m agree on their key, their counters and their total
SameCounts(r, m) ==
    /\ r.user_id = m.user_id
    /\ r.song_id = m.song_id
    /\ r.play_count = m.play_count
    /\ r.skip_count = m.skip_count
    /\ r.complete_count = m.complete_count
    /\ r.total_play_duration = m.total_play_duration

\* the streaming script has gone through the whole log
StreamedAll == aggPc = "done" /\ limit = NoLimit

\* the rows aggregateEvents makes of the log when its clock reads t
MapRows(t) == aggregateEvents(events, t)

(* C36: for every finite event sequence sorted by (userId, itemId) the
   streaming aggregator and the Map-based aggregator produce the same keys in
   the same order, with the same playCount, skipCount, completeCount and
   totalPlayDuration for every key, and the same lastPlayedAt for every key
   whose group has an event with a parseable timestamp. *)
C36_SameAsMapAggregator ==
    StreamedAll =>
        \A t \in 0..MaxClock :
            /\ Len(MapRows(t)) = Len(Emitted)
            /\ \A k \in 1..Len(Emitted) :
                  /\ SameCounts(Emitted[k], MapRows(t)[k])
                  /\ HasTimestamp(Emitted[k])
                        => Emitted[k].last_played_at = MapRows(t)[k].last_played_at

(* C36 as stated: the two aggregators also agree on lastPlayedAt for every
   key, the keys of groups without a parseable timestamp included. *)
C36_SameLastPlayedEverywhere ==
    StreamedAll =>
        \A t \in 0..MaxClock :
            /\ Len(MapRows(t)) = Len(Emitted)
            /\ \A k \in 1..Len(Emitted) :
                  /\ SameCounts(Emitted[k], MapRows(t)[k])
                  /\ Emitted[k].last_played_at = MapRows(t)[k].last_played_at

\* two groups, the first of two events, and a log whose kinds differ
C36_Witness ==
    /\ StreamedAll
    /\ \/ /\ Len(Emitted) = 2
          /\ Emitted[1].play_count = 2
          /\ Len(MapRows(now)) = 2
       \/ /\ Len(Emitted) = 1
          /\ Emitted[1].play_count = 1
          /\ Emitted[1].skip_count = 1
          /\ Emitted[1].complete_count = 1
          /\ SameCounts(Emitted[1], MapRows(now)[1])

\* the events of the log whose normalized ids are those of the row r
EventsOfRow(r) ==
    {i \in 1..Len(events) :
        /\ normalizeId(events[i].user_id) = r.user_id
        /\ normalizeId(events[i].song_id) = r.song_id}

\* the events the row r was made of, by its counters (every event of these
\* logs is a play, a skip or a complete)
Accumulated(r) == r.play_count + r.skip_count + r.complete_count

(* C37: two events are accumulated into the same feature record only if their
   normalized userIds are equal and their normalized itemIds are equal; ids
   that hold the ":" that joins the group key (user "a" with item "b:c",
   then user "a:b" with item "c") never make two pairs one record, in the
   streaming script and in the Map-based one. *)
C37_PairsNotMerged ==
    /\ StreamedAll =>
          \A k \in 1..Len(Emitted) :
              Accumulated(Emitted[k]) = Cardinality(EventsOfRow(Emitted[k]))
    /\ aggPc = "mapdone" =>
          \A k \in 1..Len(mapFeatures) :
              Accumulated(mapFeatures[k]) = Cardinality(EventsOfRow(mapFeatures[k]))

MaxRows == 1          \* most rows the store puts into one response

\* .range(from, to) on a store that cuts every response at MaxRows rows
FetchPageCapped ==
    FetchPageOf(SubSeq(events, 1, Min(Len(events), offset + MaxRows)))

\* the logs of InitIds behind such a store
InitCapped ==
    /\ InitIds
    /\ AggStart
    /\ IngIdle

NextCapped ==
    \/ FetchPageCapped
    \/ ReadFails
    \/ ProcessEvent
    \/ ResumeReader
    \/ Finish

SpecCapped == InitCapped /\ [][NextCapped]_vars

\* the rows the Map-based aggregation makes of the events the reader yielded
RowsOfYielded == aggregateEvents(yielded, 0)

(* C38: the Event Reader treats a page with fewer rows than requested as the
   last page: after such a page it issues no further request, also when the
   log holds more events (the store has cut the response below the page size
   asked for), and the run aggregates the events it was given and none of
   those after that page. *)
C38_ShortPageIsLast ==
    /\ [][(aggPc = "page" /\ Len(page) < take) => aggPc' # "fetch"]_vars
    /\ [][(aggPc \in {"drain", "done"}) => (aggPc' # "fetch" /\ yielded' = yielded)]_vars
    /\ [](aggPc = "done" =>
            /\ yielded = SubSeq(events, 1, Len(yielded))
            /\ Len(Emitted) = Len(RowsOfYielded)
            /\ \A k \in 1..Len(Emitted) : SameCounts(Emitted[k], RowsOfYielded[k]))

\* a run that ended after a page of one row where two were asked for, with an
\* event of another pair behind that page that reached no record
C38_Witness ==
    /\ aggPc = "done"
    /\ take = 2
    /\ Len(yielded) = 1
    /\ Len(Emitted) = 1
    /\ \E i \in 2..Len(events) :
          /\ normalizeId(events[i].user_id) # NoId
          /\ normalizeId(events[i].song_id) # NoId
          /\ \A k \in 1..Len(Emitted) :
                ~(/\ Emitted[k].user_id = normalizeId(events[i].user_id)
                  /\ Emitted[k].song_id = normalizeId(events[i].song_id))

====
